---- MODULE Spec2Model ----
(***************************************************************************)
(* A model of components of SLOG: the deterministic lock manager           *)
(* (deterministic_lock_manager.cpp), the simple remaster manager           *)
(* (simple_remaster_manager.cpp, remaster_manager.h), the sequencer        *)
(* (sequencer.cpp), simple multi-decree Paxos (paxos/), the schedulers of  *)
(* the replicas of a partition, the join of multi-home txns                *)
(* (txn_holder.h), the server (server.cpp), the forwarder, AsyncLog        *)
(* (async_log.h), the interleaver, the worker and TPCCExecution.           *)
(***************************************************************************)
EXTENDS Integers, Sequences, FiniteSets, TLC

(***************************************************************************)
(* Bounds and universes                                                    *)
(***************************************************************************)
\* Calls made to the lock manager in one behaviour.
MaxCalls == 5
\* RegisterTxn calls for one txn id between two ReleaseLocks of that id.
MaxRegister == 2

LOCK_TABLE_SIZE_LIMIT == 1000000

DEFAULT_MASTER_REGION_OF_NEW_KEY == 0

\* Txns that arrive at the remaster manager in one behaviour.
MaxTxns == 4

\* Events (forwarded txns, forwarded batches, ticks) the sequencers handle
\* in one behaviour.
MaxSeqEvents == 6

kMaxNumMachines == 1000

\* Propose calls made in one behaviour.
MaxProposals == 2

PAXOS_DEFAULT_LEADER_POSITION == 0

\* Transactions of multi-home txns that reach one scheduler in one behaviour.
MaxArrivals == 3

\* Client requests and completed sub-txns one server handles in one behaviour.
MaxRequests == 2
MaxSubtxns == 4

\* Txns the forwarders handle in one behaviour.
MaxForwards == 2

\* Insert and Next calls made on one AsyncLog in one behaviour.
MaxLogCalls == 6

\* Calls of TPCCExecution::Execute in one behaviour.
MaxExecutions == 2

\* Txns and batches forwarded to the sequencers of a build with replication
\* delay in one behaviour (its ticks are not counted).
MaxDelayEvents == 3

TxnIds == {100, 200, 300}
Keys == {"A", "B", "X"}
LocalKeys == {"A", "B"}

\* Configuration::KeyIsInLocalPartition
KeyIsInLocalPartition(key) == key \in LocalKeys

\* The Transaction objects handed to the lock manager, as <<txn id, read_set,
\* write_set>>. Several objects carry the same txn id: a txn and its
\* lock-only pieces.
Txn(id, rs, ws) == [id |-> id, read_set |-> rs, write_set |-> ws]

Transactions ==
  { Txn(100, {"A"}, {}),      Txn(100, {}, {"B"}),  Txn(100, {"A"}, {"B"}),
    Txn(200, {}, {"A"}),      Txn(200, {"B"}, {}),  Txn(200, {"A", "B"}, {"A"}),
    Txn(300, {"A"}, {}),      Txn(300, {"X"}, {}) }

VARIABLES
  lock_table,         \* key -> LockState, for the keys the table holds
  num_locks_waited,   \* txn id -> outstanding lock count (0 = no entry)
  req_mode,           \* history: key -> txn id -> mode it asked the key in
  hist,               \* history: per txn id, the calls made for it
  num_calls,          \* history: calls made so far
  num_locks_waited_ids, \* the txn ids that have an entry in num_locks_waited_
  storage,            \* key -> Record metadata {found, master, counter}
  blocked_queue,      \* local log machine id -> queue of waiting txns
  status,             \* txn -> where the scheduler has it
  notify,             \* keys remastered in storage, RemasterOccured not yet called
  fatal,              \* a CHECK failed: the process is gone
  last,               \* history: the last call and what it returned
  batch,              \* sequencer -> the txns of the batch it is filling
  batch_id_counter,   \* sequencer -> batches it has sealed
  paxos_proposed,     \* sequencer -> values it proposed to its local Paxos
  interleaver,        \* machine -> batch messages sent to its interleaver
  sealed,             \* history: the batches sealed, in the order of sealing
  processed,          \* history: <<sequencer, forwarded batch id>> handled
  seq_events,         \* history: events handled by the sequencers
  delayed_batches,    \* sequencer -> delayed_batches_ (ENABLE_REPLICATION_DELAY)
  proposals,          \* Paxos machine -> slot -> Proposal (proposals_)
  min_uncommitted_slot, \* Paxos machine -> first slot not yet reported
  next_empty_slot,    \* the leader's next empty slot
  accepted_from,      \* the leader's trackers: slot -> members that accepted
  on_commit,          \* Paxos machine -> the OnCommit(slot, value) calls made
  net,                \* Paxos messages in flight
  proposes,           \* history: the Propose calls made
  received,           \* history: the values the leader got, in order
  sched_log,          \* the interleaved log of one partition, the same at every replica
  sched_next,         \* replica -> place of the log its scheduler is at
  sched_locks,        \* replica -> state of its lock manager
  sched_running,      \* replica -> txns dispatched to a worker and not finished
  commit_order,       \* history: replica -> txn ids in the order they committed
  txn_holders,        \* partition -> txn id -> TxnHolder of its scheduler
  join_arrived,       \* history: partition -> <<txn id, home>> in arrival order
  applied,            \* history: partition -> txn id -> times its write set was applied
  holder_hist,        \* history: partition -> txn id -> what its holder has seen
  txn_id_counter,     \* the server's txn_id_counter_
  pending_responses,  \* the server's pending_responses_: txn id -> stream_id
  completed_txns,     \* the server's completed_txns_: txn id -> CompletedTransaction
  to_client,          \* the api::Response messages the server sent
  to_forwarder,       \* the txns the server sent to the forwarder
  server_up,          \* FALSE once a CHECK of the server failed
  server_requests,    \* history: the client requests the server handled
  server_subtxns,     \* history: <<txn id, partition>> of the sub-txns it handled
  sequencer_channel,  \* machine -> txns the forwarders sent to its sequencer
  orderer_channel,    \* machine -> txns the forwarders sent to its multi-home orderer
  forwarded,          \* history: the txns the forwarders handled, and where
  start_from,         \* the position the AsyncLog was constructed with
  log_,               \* AsyncLog::log_: position -> item
  next_,              \* AsyncLog::next_
  log_inserts,        \* history: <<position, item>> of the Insert calls
  log_out,            \* history: the items Next returned
  log_last,           \* history: how the last call ended
  il_inputs,          \* what the logs of the interleaver will hold, and its ratio
  il,                 \* the interleaver: its logs, its place in the schedule, what it emitted
  il_arrived,         \* history: the messages that reached the interleaver
  txn_states,         \* the worker's txn_states_: txn id -> TransactionState
  worker_storage,     \* the storage of the worker's partition: key -> record
  completed_subtxns,  \* the CompletedSubtransaction messages the worker sent
  remote_reads,       \* remote reads on their way to the worker: <<txn id, partition>>
  phases,             \* history: txn id -> <<phase, remote_reads_waiting_on>> entered
  dispatched,         \* history: the txn ids handed to the worker
  early_remote_reads, \* txn id -> early_remote_reads_ of its holder: partitions they came from
  txn_reads,          \* txn id -> partitions whose values are in the read set of the txn
  reads_sent,         \* history: the remote reads the other partitions sent
  tpcc_storage,       \* the storage of TPCCExecution: the writes applied, by txn
  tpcc_txns           \* the txns Execute was called on, as it left them

lockVars == <<lock_table, num_locks_waited, req_mode, hist, num_calls, num_locks_waited_ids>>

remasterVars == <<storage, blocked_queue, status, notify, fatal, last>>

sequencerVars == <<batch, batch_id_counter, paxos_proposed, interleaver, sealed,
                   processed, seq_events, delayed_batches>>

paxosVars == <<proposals, min_uncommitted_slot, next_empty_slot, accepted_from,
               on_commit, net, proposes, received>>

schedulerVars == <<sched_log, sched_next, sched_locks, sched_running, commit_order>>

joinVars == <<txn_holders, join_arrived, applied, holder_hist>>

serverVars == <<txn_id_counter, pending_responses, completed_txns, to_client,
                to_forwarder, server_up, server_requests, server_subtxns>>

forwarderVars == <<sequencer_channel, orderer_channel, forwarded>>

asyncLogVars == <<start_from, log_, next_, log_inserts, log_out, log_last>>

interleaverVars == <<il_inputs, il, il_arrived>>

workerVars == <<txn_states, worker_storage, completed_subtxns, remote_reads,
                phases, dispatched, early_remote_reads, txn_reads, reads_sent>>

tpccVars == <<tpcc_storage, tpcc_txns>>

\* What the actions of one component leave alone
notLockVars == <<remasterVars, sequencerVars, paxosVars, schedulerVars, joinVars,
                 serverVars, forwarderVars, asyncLogVars, interleaverVars, workerVars,
                 tpccVars>>

notRemasterVars == <<lockVars, sequencerVars, paxosVars, schedulerVars, joinVars,
                     serverVars, forwarderVars, asyncLogVars, interleaverVars, workerVars,
                     tpccVars>>

notSequencerVars == <<lockVars, remasterVars, paxosVars, schedulerVars, joinVars,
                      serverVars, forwarderVars, asyncLogVars, interleaverVars, workerVars,
                      tpccVars>>

notPaxosVars == <<lockVars, remasterVars, sequencerVars, schedulerVars, joinVars,
                  serverVars, forwarderVars, asyncLogVars, interleaverVars, workerVars,
                  tpccVars>>

notSchedulerVars == <<lockVars, remasterVars, sequencerVars, paxosVars, joinVars,
                      serverVars, forwarderVars, asyncLogVars, interleaverVars, workerVars,
                      tpccVars>>

notJoinVars == <<lockVars, remasterVars, sequencerVars, paxosVars, schedulerVars,
                 serverVars, forwarderVars, asyncLogVars, interleaverVars, workerVars,
                 tpccVars>>

notServerVars == <<lockVars, remasterVars, sequencerVars, paxosVars, schedulerVars,
                   joinVars, forwarderVars, asyncLogVars, interleaverVars, workerVars,
                   tpccVars>>

notForwarderVars == <<lockVars, remasterVars, sequencerVars, paxosVars, schedulerVars,
                      joinVars, serverVars, asyncLogVars, interleaverVars, workerVars,
                      tpccVars>>

notAsyncLogVars == <<lockVars, remasterVars, sequencerVars, paxosVars, schedulerVars,
                     joinVars, serverVars, forwarderVars, interleaverVars, workerVars,
                     tpccVars>>

notInterleaverVars == <<lockVars, remasterVars, sequencerVars, paxosVars, schedulerVars,
                        joinVars, serverVars, forwarderVars, asyncLogVars, workerVars,
                        tpccVars>>

notWorkerVars == <<lockVars, remasterVars, sequencerVars, paxosVars, schedulerVars,
                   joinVars, serverVars, forwarderVars, asyncLogVars, interleaverVars,
                   tpccVars>>

notTpccVars == <<lockVars, remasterVars, sequencerVars, paxosVars, schedulerVars,
                 joinVars, serverVars, forwarderVars, asyncLogVars, interleaverVars,
                 workerVars>>

vars == <<lockVars, remasterVars, sequencerVars, paxosVars, schedulerVars,
          joinVars, serverVars, forwarderVars, asyncLogVars, interleaverVars,
          workerVars, tpccVars>>

(***************************************************************************)
(* LockState                                                               *)
(***************************************************************************)
DefaultLockState ==
  [mode |-> "UNLOCKED", holders |-> {}, waiters |-> {}, waiter_queue |-> <<>>]

\* lock_table_[key]: operator[] of the map creates a default entry.
Entry(lt, key) == IF key \in DOMAIN lt THEN lt[key] ELSE DefaultLockState

Put(lt, key, ls) == [k \in (DOMAIN lt) \cup {key} |-> IF k = key THEN ls ELSE lt[k]]

Erase(lt, key) == [k \in (DOMAIN lt) \ {key} |-> lt[k]]

Enqueue(ls, txn_id, tag) ==
  [ls EXCEPT !.waiters = @ \cup {txn_id},
             !.waiter_queue = Append(@, <<txn_id, tag>>)]

AcquireReadLock(ls, txn_id) ==
  CASE ls.mode = "UNLOCKED" ->
         [ls |-> [ls EXCEPT !.holders = @ \cup {txn_id}, !.mode = "READ"], ok |-> TRUE]
    [] ls.mode = "READ" ->
         IF ls.waiters = {}
           THEN [ls |-> [ls EXCEPT !.holders = @ \cup {txn_id}], ok |-> TRUE]
           ELSE [ls |-> Enqueue(ls, txn_id, "READ"), ok |-> FALSE]
    [] ls.mode = "WRITE" ->
         [ls |-> Enqueue(ls, txn_id, "READ"), ok |-> FALSE]

\* The tag pushed for a waiting writer
WriteWaiterTag == "READ"

AcquireWriteLock(ls, txn_id) ==
  CASE ls.mode = "UNLOCKED" ->
         [ls |-> [ls EXCEPT !.holders = @ \cup {txn_id}, !.mode = "WRITE"], ok |-> TRUE]
    [] ls.mode \in {"READ", "WRITE"} ->
         [ls |-> Enqueue(ls, txn_id, WriteWaiterTag), ok |-> FALSE]

\* A test that finds no txn in the entry
NeverQueued(ls, txn_id) == FALSE

IsQueued(ls, txn_id) == txn_id \in ls.holders \/ txn_id \in ls.waiters

\* std::remove_if over the waiter queue
RECURSIVE RemoveTxn(_, _)
RemoveTxn(q, txn_id) ==
  IF q = <<>> THEN <<>>
  ELSE IF Head(q)[1] = txn_id THEN RemoveTxn(Tail(q), txn_id)
  ELSE <<Head(q)>> \o RemoveTxn(Tail(q), txn_id)

\* Length of the run of READ-tagged waiters at the head of the queue (the
\* do-while loop always takes the first one)
RECURSIVE ReadRun(_)
ReadRun(q) ==
  IF q = <<>> \/ Head(q)[2] # "READ" THEN 0 ELSE 1 + ReadRun(Tail(q))

\* An entry that kept its mode after its last holder left
ModeKept == "READ"

\* The mode left when the last holder leaves and nobody waits
ModeWhenIdle == "UNLOCKED"

\* A release after which the waiters go on waiting
ReleaseLeavesWaiters(ls, txn_id) ==
  IF txn_id \notin ls.holders
    THEN [ls |-> [ls EXCEPT !.waiter_queue = RemoveTxn(@, txn_id),
                            !.waiters = @ \ {txn_id}],
          new_holders |-> {}]
  ELSE [ls |-> [ls EXCEPT !.holders = @ \ {txn_id},
                          !.mode = IF ls.holders = {txn_id} /\ ls.waiters = {}
                                     THEN "UNLOCKED" ELSE @],
        new_holders |-> {}]

Release(ls, txn_id) ==
  IF txn_id \notin ls.holders
    THEN [ls |-> [ls EXCEPT !.waiter_queue = RemoveTxn(@, txn_id),
                            !.waiters = @ \ {txn_id}],
          new_holders |-> {}]
  ELSE LET h == ls.holders \ {txn_id} IN
    IF h # {}
      THEN [ls |-> [ls EXCEPT !.holders = h], new_holders |-> {}]
    ELSE IF ls.waiters = {}
      THEN [ls |-> [ls EXCEPT !.holders = h, !.mode = ModeWhenIdle], new_holders |-> {}]
    ELSE LET front == Head(ls.waiter_queue) IN
      IF front[2] = "READ"
        THEN LET n == ReadRun(ls.waiter_queue)
                 promoted == {ls.waiter_queue[i][1] : i \in 1..n}
             IN [ls |-> [mode |-> "READ",
                         holders |-> promoted,
                         waiters |-> ls.waiters \ promoted,
                         waiter_queue |-> SubSeq(ls.waiter_queue, n + 1, Len(ls.waiter_queue))],
                 new_holders |-> promoted]
        ELSE \* front[2] = "WRITE"
             [ls |-> [mode |-> "WRITE",
                      holders |-> {front[1]},
                      waiters |-> ls.waiters \ {front[1]},
                      waiter_queue |-> Tail(ls.waiter_queue)],
              new_holders |-> {front[1]}]

(***************************************************************************)
(* DeterministicLockManager                                                *)
(***************************************************************************)
RECURSIVE SetToSeq(_)
SetToSeq(S) ==
  IF S = {} THEN <<>>
  ELSE LET x == CHOOSE y \in S : TRUE IN <<x>> \o SetToSeq(S \ {x})

\* vector<pair<Key, LockMode>>: the local read keys that are not written,
\* then the local write keys
ExtractKeys(txn) ==
  SetToSeq({<<k, "READ">> : k \in {r \in txn.read_set :
                 KeyIsInLocalPartition(r) /\ r \notin txn.write_set}})
  \o SetToSeq({<<k, "WRITE">> : k \in {w \in txn.write_set : KeyIsInLocalPartition(w)}})

KeySet(keys) == {keys[i][1] : i \in 1..Len(keys)}

\* A RegisterTxn that reports a txn without local keys as ready
RegisterEmptyAsReady(s, txn_id, txn) ==
  [lt |-> s.lt, nlw |-> [s.nlw EXCEPT ![txn_id] = @ + Len(ExtractKeys(txn))],
   ret |-> (s.nlw[txn_id] + Len(ExtractKeys(txn)) = 0)]

\* The state of the lock manager: s.lt is lock_table_, s.nlw is num_locks_waited_
RegisterTxn(s, txn_id, txn) ==
  LET keys == ExtractKeys(txn) IN
  IF keys = <<>> THEN [lt |-> s.lt, nlw |-> s.nlw, ret |-> FALSE]
  ELSE LET n == s.nlw[txn_id] + Len(keys) IN
       [lt |-> s.lt, nlw |-> [s.nlw EXCEPT ![txn_id] = n], ret |-> (n = 0)]

\* What AcquireLocks answers from the count it is left with
AllLocksHeld(n) == n = 0

\* One turn of the loop of AcquireLocks
AcquireOne(s, txn_id, pair) ==
  LET ls == Entry(s.lt, pair[1]) IN
  IF IsQueued(ls, txn_id) THEN [lt |-> Put(s.lt, pair[1], ls), nlw |-> s.nlw]
  ELSE LET r == IF pair[2] = "READ" THEN AcquireReadLock(ls, txn_id)
                                    ELSE AcquireWriteLock(ls, txn_id)
       IN [lt |-> Put(s.lt, pair[1], r.ls),
           nlw |-> IF r.ok THEN [s.nlw EXCEPT ![txn_id] = @ - 1] ELSE s.nlw]

RECURSIVE AcquireLoop(_, _, _)
AcquireLoop(s, txn_id, keys) ==
  IF keys = <<>> THEN s
  ELSE AcquireLoop(AcquireOne(s, txn_id, Head(keys)), txn_id, Tail(keys))

AcquireLocks(s, txn_id, txn) ==
  LET keys == ExtractKeys(txn) IN
  IF keys = <<>> THEN [lt |-> s.lt, nlw |-> s.nlw, ret |-> FALSE]
  ELSE LET t == AcquireLoop([lt |-> s.lt, nlw |-> s.nlw], txn_id, keys) IN
       [lt |-> t.lt, nlw |-> t.nlw, ret |-> AllLocksHeld(t.nlw[txn_id])]

RegisterTxnAndAcquireLocks(s, txn_id, txn) ==
  AcquireLocks(RegisterTxn(s, txn_id, txn), txn_id, txn)

\* The loop over the new holders of one key: decrement, report those at zero
RECURSIVE NotifyHolders(_, _, _)
NotifyHolders(nlw, ready, holders) ==
  IF holders = {} THEN [nlw |-> nlw, ready |-> ready]
  ELSE LET h == CHOOSE x \in holders : TRUE
           n == nlw[h] - 1
       IN NotifyHolders([nlw EXCEPT ![h] = n],
                        IF n = 0 THEN ready \cup {h} ELSE ready,
                        holders \ {h})

\* One turn of the loop of ReleaseLocks
ReleaseOne(s, txn_id, key) ==
  IF ~KeyIsInLocalPartition(key) THEN s
  ELSE LET r == Release(Entry(s.lt, key), txn_id)
           n == NotifyHolders(s.nlw, s.ready, r.new_holders)
           lt1 == Put(s.lt, key, r.ls)
       IN [lt |-> IF r.ls.mode = "UNLOCKED" /\ Cardinality(DOMAIN lt1) > LOCK_TABLE_SIZE_LIMIT
                    THEN Erase(lt1, key) ELSE lt1,
           nlw |-> n.nlw,
           ready |-> n.ready]

RECURSIVE ReleaseLoop(_, _, _)
ReleaseLoop(s, txn_id, keys) ==
  IF keys = <<>> THEN s
  ELSE CHOOSE r \in {ReleaseLoop(s1, txn_id, Tail(keys)) :
                       s1 \in {ReleaseOne(s, txn_id, Head(keys)[1])}} : TRUE

\* A ReleaseLocks that forgets the count of the txn and leaves the lock table
ReleaseCountOnly(s, txn_id, txn) ==
  [lt |-> s.lt, nlw |-> [s.nlw EXCEPT ![txn_id] = 0], ret |-> {}]

\* ExtractKeys is called once, before the loop
ReleaseLocks(s, txn_id, txn) ==
  LET t == CHOOSE r \in {ReleaseLoop([lt |-> s.lt, nlw |-> s.nlw, ready |-> {}], txn_id, keys) :
                            keys \in {ExtractKeys(txn)}} : TRUE
  IN [lt |-> t.lt, nlw |-> [t.nlw EXCEPT ![txn_id] = 0], ret |-> t.ready]

\* A test of the count that leaves the entry in the map
EntryKept(ids, nlw, txn_id) == ids \cup {txn_id}

\* The entries of num_locks_waited_ after `if (num_locks_waited_[txn_id] == 0)
\* erase(txn_id)`: operator[] makes the entry of txn_id, and it is erased
\* when its count is 0
EntryTested(ids, nlw, txn_id) ==
  IF nlw[txn_id] = 0 THEN ids \ {txn_id} ELSE ids \cup {txn_id}

\* The entries after RegisterTxn left the counts nlw
EntriesAfterRegisterTxn(ids, nlw, txn_id, txn) ==
  IF ExtractKeys(txn) = <<>> THEN ids ELSE EntryTested(ids, nlw, txn_id)

\* The entries after AcquireLocks left the counts nlw
EntriesAfterAcquireLocks(ids, nlw, txn_id, txn) ==
  IF ExtractKeys(txn) = <<>> THEN ids ELSE EntryTested(ids, nlw, txn_id)

\* The entries after ReleaseLocks went from s to r: the count of every new
\* holder is decremented, which makes its entry, and erased at 0; the entry of
\* txn_id is erased at the end
EntriesAfterReleaseLocks(ids, s, r, txn_id, txn) ==
  LET new_holders == {h \in TxnIds : \E k \in KeySet(ExtractKeys(txn)) :
                        h \in Entry(r.lt, k).holders \ Entry(s.lt, k).holders}
  IN ((ids \cup new_holders) \ {h \in new_holders : r.nlw[h] = 0}) \ {txn_id}

(***************************************************************************)
(* The calls made to the lock manager                                      *)
(***************************************************************************)
NoHist == [reg |-> 0, keys |-> {}, req |-> {}, twice |-> FALSE, ready |-> 0]

LockInit ==
  /\ lock_table = << >>
  /\ num_locks_waited = [t \in TxnIds |-> 0]
  /\ req_mode = [k \in LocalKeys |-> [t \in TxnIds |-> "NONE"]]
  /\ hist = [t \in TxnIds |-> NoHist]
  /\ num_calls = 0
  /\ num_locks_waited_ids = {}

Now == [lt |-> lock_table, nlw |-> num_locks_waited]

ModeIn(keys, k) == keys[CHOOSE i \in 1..Len(keys) : keys[i][1] = k][2]

\* The mode each key of `keys` is asked in, recorded for the keys on which
\* the call files a request (IsQueued is false)
Requested(txn_id, keys) ==
  [k \in LocalKeys |->
     IF k \in KeySet(keys) /\ ~IsQueued(Entry(lock_table, k), txn_id)
       THEN [req_mode[k] EXCEPT ![txn_id] = ModeIn(keys, k)]
       ELSE req_mode[k]]

Forgotten(txn_id, keys) ==
  [k \in LocalKeys |->
     IF k \in KeySet(keys) THEN [req_mode[k] EXCEPT ![txn_id] = "NONE"] ELSE req_mode[k]]

Present(lt, txn_id) == {k \in DOMAIN lt : IsQueued(lt[k], txn_id)}

Count(h, ready) == [t \in TxnIds |->
  IF t \in ready THEN [h[t] EXCEPT !.ready = IF @ < 2 THEN @ + 1 ELSE @] ELSE h[t]]

DoRegisterTxn(txn_id, txn) ==
  /\ num_calls < MaxCalls
  /\ hist[txn_id].reg < MaxRegister
  /\ LET r == RegisterTxn(Now, txn_id, txn)
         ready == IF r.ret THEN {txn_id} ELSE {}
         keys == KeySet(ExtractKeys(txn))
     IN /\ lock_table' = r.lt
        /\ num_locks_waited' = r.nlw
        /\ req_mode' = req_mode
        /\ hist' = Count([hist EXCEPT ![txn_id].reg = @ + 1, ![txn_id].keys = @ \cup keys],
                         ready)
        /\ num_calls' = num_calls + 1
        /\ num_locks_waited_ids' =
             EntriesAfterRegisterTxn(num_locks_waited_ids, r.nlw, txn_id, txn)
        /\ UNCHANGED notLockVars

DoAcquireLocks(txn_id, txn) ==
  /\ num_calls < MaxCalls
  /\ LET r == AcquireLocks(Now, txn_id, txn)
         ready == IF r.ret THEN {txn_id} ELSE {}
         keys == KeySet(ExtractKeys(txn))
     IN /\ lock_table' = r.lt
        /\ num_locks_waited' = r.nlw
        /\ req_mode' = Requested(txn_id, ExtractKeys(txn))
        /\ hist' = Count([hist EXCEPT ![txn_id].req = @ \cup keys,
                                      ![txn_id].twice = @ \/ (keys \cap hist[txn_id].req # {})],
                         ready)
        /\ num_calls' = num_calls + 1
        /\ num_locks_waited_ids' =
             EntriesAfterAcquireLocks(num_locks_waited_ids, r.nlw, txn_id, txn)
        /\ UNCHANGED notLockVars

DoRegisterTxnAndAcquireLocks(txn_id, txn) ==
  /\ num_calls < MaxCalls
  /\ hist[txn_id].reg < MaxRegister
  /\ LET r == RegisterTxnAndAcquireLocks(Now, txn_id, txn)
         ready == IF r.ret THEN {txn_id} ELSE {}
         keys == KeySet(ExtractKeys(txn))
     IN /\ lock_table' = r.lt
        /\ num_locks_waited' = r.nlw
        /\ req_mode' = Requested(txn_id, ExtractKeys(txn))
        /\ hist' = Count([hist EXCEPT ![txn_id].reg = @ + 1,
                                      ![txn_id].keys = @ \cup keys,
                                      ![txn_id].req = @ \cup keys,
                                      ![txn_id].twice = @ \/ (keys \cap hist[txn_id].req # {})],
                         ready)
        /\ num_calls' = num_calls + 1
        /\ num_locks_waited_ids' =
             EntriesAfterAcquireLocks(
               EntriesAfterRegisterTxn(num_locks_waited_ids,
                                       RegisterTxn(Now, txn_id, txn).nlw, txn_id, txn),
               r.nlw, txn_id, txn)
        /\ UNCHANGED notLockVars

DoReleaseLocks(txn_id, txn) ==
  /\ num_calls < MaxCalls
  /\ LET r == ReleaseLocks(Now, txn_id, txn)
         keys == KeySet(ExtractKeys(txn))
     IN /\ lock_table' = r.lt
        /\ num_locks_waited' = r.nlw
        /\ req_mode' = Forgotten(txn_id, ExtractKeys(txn))
        /\ hist' = Count([hist EXCEPT ![txn_id] =
                            [NoHist EXCEPT !.twice = Present(r.lt, txn_id) # {}]],
                         r.ret)
        /\ num_calls' = num_calls + 1
        /\ num_locks_waited_ids' =
             EntriesAfterReleaseLocks(num_locks_waited_ids, Now, r, txn_id, txn)
        /\ UNCHANGED notLockVars

LockNext ==
  \E txn \in Transactions :
    \/ DoRegisterTxn(txn.id, txn)
    \/ DoAcquireLocks(txn.id, txn)
    \/ DoRegisterTxnAndAcquireLocks(txn.id, txn)
    \/ DoReleaseLocks(txn.id, txn)

\* The scheduler of a txn that asks for all its local keys in one call: the
\* call is made once for a txn id that is not in the lock manager
Submitted(txn_id) == hist[txn_id].reg > 0

ReportedReady(txn_id) == hist[txn_id].ready > 0

SubmitAtomically(txn) ==
  /\ ~Submitted(txn.id)
  /\ DoRegisterTxnAndAcquireLocks(txn.id, txn)

\* The Transaction objects of txn_id that have the local keys it asked for
SubmittedAs(txn_id) ==
  {txn \in Transactions : txn.id = txn_id /\ KeySet(ExtractKeys(txn)) = hist[txn_id].keys}

\* The txn that was reported ready has run; its locks are released with the
\* keys it asked for
ReleaseReadyTxn(txn) ==
  /\ ReportedReady(txn.id)
  /\ \E r \in {ReleaseLocks(Now, txn.id, txn)} :
       /\ lock_table' = r.lt
       /\ num_locks_waited' = r.nlw
       /\ req_mode' = Forgotten(txn.id, ExtractKeys(txn))
       /\ hist' = Count([hist EXCEPT ![txn.id] = NoHist], r.ret)
       /\ num_locks_waited_ids' =
            EntriesAfterReleaseLocks(num_locks_waited_ids, Now, r, txn.id, txn)
       /\ UNCHANGED <<num_calls, notLockVars>>

LockAtomicNext ==
  \/ \E txn \in Transactions : SubmitAtomically(txn)
  \/ \E t \in TxnIds : \E txn \in SubmittedAs(t) : ReleaseReadyTxn(txn)

(***************************************************************************)
(* SimpleRemasterManager                                                   *)
(***************************************************************************)
Meta(m, c) == [master |-> m, counter |-> c]

\* A Transaction in its holder: KeysInPartition() in its iteration order,
\* master_metadata per key, and new_master for a remaster txn.
Holder(id, keys, md, remaster, nm) ==
  [id |-> id, keys |-> keys, master_metadata |-> md,
   remaster |-> remaster, new_master |-> nm]

\* all_txns_: the transactions that may arrive at the scheduler
all_txns ==
  { Holder(10, <<"A">>, [k \in {"A"} |-> Meta(0, 2)], FALSE, 0),
    Holder(11, <<"A">>, [k \in {"A"} |-> Meta(0, 1)], TRUE, 0),
    Holder(12, <<"A">>, [k \in {"A"} |-> Meta(0, 1)], FALSE, 0),
    Holder(13, <<"B">>, [k \in {"B"} |-> Meta(0, 2)], FALSE, 0),
    Holder(14, <<"B">>, [k \in {"B"} |-> Meta(0, 1)], TRUE, 0),
    Holder(15, <<"A", "B">>, [k \in {"A", "B"} |-> IF k = "A" THEN Meta(0, 2) ELSE Meta(0, 0)], FALSE, 0),
    Holder(16, <<"B", "A">>, [k \in {"A", "B"} |-> IF k = "A" THEN Meta(0, 2) ELSE Meta(0, 0)], FALSE, 0),
    Holder(17, <<"B">>, [k \in {"B"} |-> Meta(1, 1)], FALSE, 0),
    Holder(18, <<"A">>, [k \in {"A"} |-> Meta(0, 3)], FALSE, 0),
    Holder(19, <<"A">>, [k \in {"A"} |-> Meta(0, 1)], TRUE, 1) }

TxnReplicaIds == {t.id : t \in all_txns}

\* all_txns_->at(txn_replica_id)
At(id) == CHOOSE t \in all_txns : t.id = id

Masters == {0, 1}

KeysInPartition(txn) == {txn.keys[i] : i \in 1..Len(txn.keys)}

Range(s) == {s[i] : i \in 1..Len(s)}

\* Storage::Read of a key that was never written
NotFound == [found |-> FALSE, master |-> DEFAULT_MASTER_REGION_OF_NEW_KEY, counter |-> 0]

Record(m, c) == [found |-> TRUE, master |-> m, counter |-> c]

\* The storages the manager starts on
InitialStorages ==
  { [k \in LocalKeys |-> Record(0, 1)],
    [k \in LocalKeys |-> IF k = "A" THEN Record(0, 1) ELSE NotFound] }

\* A loop that compares the counters and never the masters
RECURSIVE CountersOnly(_, _, _)
CountersOnly(st, md, keys) ==
  IF keys = <<>> THEN "VALID"
  ELSE LET key == Head(keys)
           txn_counter == md[key].counter
           storage_counter == IF st[key].found THEN st[key].counter ELSE 0
       IN IF txn_counter < storage_counter THEN "ABORT"
          ELSE IF txn_counter > storage_counter THEN "WAITING"
          ELSE CountersOnly(st, md, Tail(keys))

\* The loop of CheckCounters over the keys, in their order. A failed CHECK
\* ends the process: "FATAL".
RECURSIVE CheckKeys(_, _, _)
CheckKeys(st, md, keys) ==
  IF keys = <<>> THEN "VALID"
  ELSE LET key == Head(keys)
           txn_counter == md[key].counter
           storage_counter == IF st[key].found THEN st[key].counter ELSE 0
       IN IF st[key].found /\ md[key].master # st[key].master THEN "FATAL"
          ELSE IF txn_counter < storage_counter THEN "ABORT"
          ELSE IF txn_counter > storage_counter THEN "WAITING"
          ELSE CheckKeys(st, md, Tail(keys))

\* A check that stops after the first key
CheckFirstKey(st, txn) == CheckKeys(st, txn.master_metadata, SubSeq(txn.keys, 1, 1))

CheckCounters(st, txn) == CheckKeys(st, txn.master_metadata, txn.keys)

\* txn_master_metadata.begin()->second.master()
LocalLogMachineId(txn) ==
  txn.master_metadata[CHOOSE k \in DOMAIN txn.master_metadata : TRUE].master

\* A VerifyMaster that tests the counters before it looks at the queue
VerifyMasterCountersFirst(st, bq, txn_replica_id) ==
  LET txn == At(txn_replica_id)
      id == LocalLogMachineId(txn)
      result == CheckCounters(st, txn)
  IN IF result = "WAITING"
       THEN [bq |-> [bq EXCEPT ![id] = Append(@, txn_replica_id)], result |-> result]
       ELSE [bq |-> bq, result |-> result]

VerifyMaster(st, bq, txn_replica_id) ==
  LET txn == At(txn_replica_id)
      id == LocalLogMachineId(txn)
  IN IF txn.keys = <<>> THEN [bq |-> bq, result |-> "VALID"]
     ELSE IF DOMAIN txn.master_metadata = {} THEN [bq |-> bq, result |-> "VALID"]
     ELSE IF bq[id] # <<>>
       THEN [bq |-> [bq EXCEPT ![id] = Append(@, txn_replica_id)], result |-> "WAITING"]
     ELSE LET result == CheckCounters(st, txn) IN
       IF result = "WAITING"
         THEN [bq |-> [bq EXCEPT ![id] = Append(@, txn_replica_id)], result |-> result]
         ELSE [bq |-> bq, result |-> result]

EmptyResult == [unblocked |-> <<>>, should_abort |-> <<>>, fatal |-> FALSE]

\* An unblocking that looks at the head once and not at the txn behind it
UnblockHeadOnce(st, bq, id, result) ==
  IF bq[id] = <<>> THEN [bq |-> bq, result |-> result]
  ELSE LET txn_replica_id == Head(bq[id])
           counter_result == CheckCounters(st, At(txn_replica_id))
       IN CASE counter_result = "WAITING" -> [bq |-> bq, result |-> result]
            [] counter_result = "FATAL" -> [bq |-> bq, result |-> [result EXCEPT !.fatal = TRUE]]
            [] counter_result = "VALID" ->
                 [bq |-> [bq EXCEPT ![id] = Tail(@)],
                  result |-> [result EXCEPT !.unblocked = Append(@, txn_replica_id)]]
            [] counter_result = "ABORT" ->
                 [bq |-> [bq EXCEPT ![id] = Tail(@)],
                  result |-> [result EXCEPT !.should_abort = Append(@, txn_replica_id)]]

RECURSIVE TryToUnblock(_, _, _, _)
TryToUnblock(st, bq, id, result) ==
  IF bq[id] = <<>> THEN [bq |-> bq, result |-> result]
  ELSE LET txn_replica_id == Head(bq[id])
           counter_result == CheckCounters(st, At(txn_replica_id))
       IN CASE counter_result = "WAITING" -> [bq |-> bq, result |-> result]
            [] counter_result = "FATAL" -> [bq |-> bq, result |-> [result EXCEPT !.fatal = TRUE]]
            [] counter_result = "VALID" ->
                 TryToUnblock(st, [bq EXCEPT ![id] = Tail(@)], id,
                              [result EXCEPT !.unblocked = Append(@, txn_replica_id)])
            [] counter_result = "ABORT" ->
                 TryToUnblock(st, [bq EXCEPT ![id] = Tail(@)], id,
                              [result EXCEPT !.should_abort = Append(@, txn_replica_id)])

\* The loop of RemasterOccured over the queues `ids`
RECURSIVE RemasterLoop(_, _, _, _, _)
RemasterLoop(st, bq, remaster_key, ids, result) ==
  IF ids = <<>> \/ result.fatal THEN [bq |-> bq, result |-> result]
  ELSE LET id == Head(ids)
           r == IF bq[id] # <<>> /\ remaster_key \in KeysInPartition(At(Head(bq[id])))
                  THEN TryToUnblock(st, bq, id, result)
                  ELSE [bq |-> bq, result |-> result]
       IN RemasterLoop(st, r.bq, remaster_key, Tail(ids), r.result)

\* The remaster_counter argument is not read.
RemasterOccured(st, bq, remaster_key) ==
  RemasterLoop(st, bq, remaster_key, SetToSeq(Masters), EmptyResult)

RECURSIVE Without(_, _)
Without(q, x) ==
  IF q = <<>> THEN <<>>
  ELSE IF Head(q) = x THEN Without(Tail(q), x)
  ELSE <<Head(q)>> \o Without(Tail(q), x)

\* A release that only takes the txn out of its queue
RemoveOnly(st, bq, txn_id) ==
  [bq |-> [id \in Masters |-> Without(bq[id], txn_id)], result |-> EmptyResult]

\* The loop of ReleaseTransaction over the queues `ids`
RECURSIVE ReleaseLoop2(_, _, _, _, _)
ReleaseLoop2(st, bq, txn_id, ids, result) ==
  IF ids = <<>> \/ result.fatal THEN [bq |-> bq, result |-> result]
  ELSE LET id == Head(ids)
           r == IF bq[id] # <<>> /\ Head(bq[id]) = txn_id
                  THEN TryToUnblock(st, [bq EXCEPT ![id] = Tail(@)], id, result)
                  ELSE [bq |-> [bq EXCEPT ![id] = Without(@, txn_id)], result |-> result]
       IN ReleaseLoop2(st, r.bq, txn_id, Tail(ids), r.result)

ReleaseTransaction(st, bq, txn_id) ==
  ReleaseLoop2(st, bq, txn_id, SetToSeq(Masters), EmptyResult)

\* Worker, COMMIT of a remaster txn: master <- new_master, counter += 1 on
\* each of its keys
Remastered(st, txn) ==
  [k \in DOMAIN st |->
     IF k \in KeysInPartition(txn)
       THEN Record(txn.new_master, (IF st[k].found THEN st[k].counter ELSE 0) + 1)
       ELSE st[k]]

(***************************************************************************)
(* The scheduler's use of the remaster manager                             *)
(***************************************************************************)
NoCall == [call |-> "none", txn |-> 0, key |-> "", verdict |-> "",
           unblocked |-> <<>>, should_abort |-> <<>>]

RemasterIdle(st) ==
  /\ storage = st
  /\ blocked_queue = [id \in Masters |-> <<>>]
  /\ status = [t \in TxnReplicaIds |-> "NEW"]
  /\ notify = {}
  /\ fatal = FALSE
  /\ last = NoCall

RemasterInit == \E st \in InitialStorages : RemasterIdle(st)

Arrived == {t \in TxnReplicaIds : status[t] # "NEW"}

\* What the scheduler does with the txns a call returned
Dispatch(s, result) ==
  [t \in TxnReplicaIds |->
     IF t \in Range(result.unblocked) THEN "ADMITTED"
     ELSE IF t \in Range(result.should_abort) THEN "ABORTED"
     ELSE s[t]]

\* A txn arrives from the interleaver: step 2 of the scheduler
DoVerifyMaster(t) ==
  /\ ~fatal
  /\ status[t] = "NEW"
  /\ Cardinality(Arrived) < MaxTxns
  /\ LET r == VerifyMaster(storage, blocked_queue, t) IN
     /\ fatal' = (r.result = "FATAL")
     /\ blocked_queue' = r.bq
     /\ status' = [status EXCEPT ![t] =
                     CASE r.result = "VALID" -> "ADMITTED"
                       [] r.result = "WAITING" -> "WAITING"
                       [] r.result = "ABORT" -> "ABORTED"
                       [] r.result = "FATAL" -> "NEW"]
     /\ last' = [NoCall EXCEPT !.call = "VerifyMaster", !.txn = t, !.verdict = r.result]
     /\ UNCHANGED <<storage, notify, notRemasterVars>>

\* The worker commits an admitted txn; a remaster txn changes the storage
DoCommit(t) ==
  /\ ~fatal
  /\ status[t] = "ADMITTED"
  /\ status' = [status EXCEPT ![t] = "COMMITTED"]
  /\ storage' = IF At(t).remaster THEN Remastered(storage, At(t)) ELSE storage
  /\ notify' = IF At(t).remaster THEN notify \cup KeysInPartition(At(t)) ELSE notify
  /\ last' = [NoCall EXCEPT !.call = "Commit", !.txn = t]
  /\ UNCHANGED <<blocked_queue, fatal, notRemasterVars>>

\* The scheduler learns of a committed remaster of key k
DoRemasterOccured(k) ==
  /\ ~fatal
  /\ k \in notify
  /\ LET r == RemasterOccured(storage, blocked_queue, k) IN
     /\ fatal' = r.result.fatal
     /\ blocked_queue' = r.bq
     /\ status' = Dispatch(status, r.result)
     /\ last' = [NoCall EXCEPT !.call = "RemasterOccured", !.key = k,
                               !.unblocked = r.result.unblocked,
                               !.should_abort = r.result.should_abort]
     /\ notify' = notify \ {k}
     /\ UNCHANGED <<storage, notRemasterVars>>

\* The scheduler withdraws a waiting txn
DoReleaseTransaction(t) ==
  /\ ~fatal
  /\ status[t] = "WAITING"
  /\ LET r == ReleaseTransaction(storage, blocked_queue, t) IN
     /\ fatal' = r.result.fatal
     /\ blocked_queue' = r.bq
     /\ status' = Dispatch([status EXCEPT ![t] = "RELEASED"], r.result)
     /\ last' = [NoCall EXCEPT !.call = "ReleaseTransaction", !.txn = t,
                               !.unblocked = r.result.unblocked,
                               !.should_abort = r.result.should_abort]
     /\ UNCHANGED <<storage, notify, notRemasterVars>>

RemasterNext ==
  \/ \E t \in TxnReplicaIds : DoVerifyMaster(t)
  \/ \E t \in TxnReplicaIds : DoCommit(t)
  \/ \E k \in LocalKeys : DoRemasterOccured(k)
  \/ \E t \in TxnReplicaIds : DoReleaseTransaction(t)

(***************************************************************************)
(* Sequencer                                                               *)
(***************************************************************************)
Replicas == {0, 1}
Partitions == {0, 1}

\* Every machine of the deployment, as <<replica, partition>>
Machines == Replicas \X Partitions

\* The machines whose sequencer is followed
Sequencers == {<<0, 1>>, <<1, 0>>}

\* config_->local_machine_id(): the number of a machine
LocalMachineId(m) == m[1] * Cardinality(Partitions) + m[2]

Restrict(f, S) == [k \in S |-> f[k]]

\* A client transaction as the sequencer sees it
SeqTxn(id, type, rs, ws, md) ==
  [id |-> id, type |-> type, read_set |-> rs, write_set |-> ws, master_metadata |-> md]

NoEntries == [k \in {} |-> ""]

\* The single-home txns forwarded to a sequencer
SingleHomeTxns ==
  { SeqTxn(1, "SINGLE_HOME", [k \in {"A"} |-> "valueA"], NoEntries,
           [k \in {"A"} |-> Meta(0, 0)]) }

\* Multi-home txns: keys mastered at region 0 and at region 1, and a txn
\* whose keys are all mastered at region 0
MultiHomeTxn7 ==
  SeqTxn(7, "MULTI_HOME", [k \in {"A", "C"} |-> "value" \o k], NoEntries,
         [k \in {"A", "C"} |-> IF k = "A" THEN Meta(0, 0) ELSE Meta(1, 0)])

MultiHomeTxn8 ==
  SeqTxn(8, "MULTI_HOME", [k \in {"A"} |-> "valueA"], [k \in {"A", "B"} |-> "new" \o k],
         [k \in {"A", "B"} |-> Meta(0, 1)])

MultiHomeTxn9 ==
  SeqTxn(9, "MULTI_HOME", [k \in {"B"} |-> "valueB"], [k \in {"C"} |-> "newC"],
         [k \in {"B", "C"} |-> IF k = "B" THEN Meta(0, 0) ELSE Meta(1, 2)])

\* The batches forwarded to a sequencer; the last one is not multi-home
ForwardedBatches ==
  { [id |-> 500, transaction_type |-> "MULTI_HOME",
     transactions |-> <<MultiHomeTxn7, MultiHomeTxn8>>],
    [id |-> 501, transaction_type |-> "MULTI_HOME",
     transactions |-> <<MultiHomeTxn9>>],
    [id |-> 502, transaction_type |-> "SINGLE_HOME",
     transactions |-> <<[MultiHomeTxn7 EXCEPT !.id = 6]>>] }

\* An id made of the counter alone
CounterOnlyBatchId(counter, m) == counter * kMaxNumMachines

\* The id NextBatchId returns once the counter is `counter`
NextBatchId(counter, m) == counter * kMaxNumMachines + LocalMachineId(m)

\* A sub-txn that carries the whole parent
WholeParent(txn, local_rep) ==
  [txn EXCEPT !.type = "LOCK_ONLY"]

\* The lock-only txn ProcessMultiHomeBatch builds for one txn of the batch
LockOnlyTxn(txn, local_rep) ==
  LET metadata == txn.master_metadata
      rs == {k \in DOMAIN txn.read_set : metadata[k].master = local_rep}
      ws == {k \in DOMAIN txn.write_set : metadata[k].master = local_rep}
  IN SeqTxn(txn.id, "LOCK_ONLY", Restrict(txn.read_set, rs), Restrict(txn.write_set, ws),
            Restrict(metadata, rs \cup ws))

\* The loop of ProcessMultiHomeBatch over the txns of the batch: the batch_
\* of the sequencer after it
RECURSIVE PutLockOnlyTxns(_, _, _)
PutLockOnlyTxns(b, txns, local_rep) ==
  IF txns = <<>> THEN b
  ELSE LET lock_only_txn == LockOnlyTxn(Head(txns), local_rep) IN
       PutLockOnlyTxns(
         IF DOMAIN lock_only_txn.read_set # {} \/ DOMAIN lock_only_txn.write_set # {}
           THEN Append(b, lock_only_txn) ELSE b,
         Tail(txns), local_rep)

\* Send(request, kInterleaverChannel, machine_id) to each machine of `to`
Deliver(inbox, to, msg) ==
  [m \in Machines |-> IF m \in to THEN Append(inbox[m], msg) ELSE inbox[m]]

\* The interleavers of the sealing sequencer's own replica only
SameReplicaTargets(m) == {m[1]} \X Partitions

\* The machines a sealed batch is sent to: every partition of every replica
InterleaverTargets(m) == Machines

SequencerInit ==
  /\ batch = [m \in Sequencers |-> <<>>]
  /\ batch_id_counter = [m \in Sequencers |-> 0]
  /\ paxos_proposed = [m \in Sequencers |-> <<>>]
  /\ interleaver = [m \in Machines |-> <<>>]
  /\ sealed = <<>>
  /\ processed = {}
  /\ seq_events = 0
  /\ delayed_batches = [m \in Sequencers |-> <<>>]

\* HandleInternalRequest, kForwardTxn
SeqForwardTxn(m, txn) ==
  /\ seq_events < MaxSeqEvents
  /\ batch' = [batch EXCEPT ![m] = Append(@, txn)]
  /\ seq_events' = seq_events + 1
  /\ UNCHANGED <<batch_id_counter, paxos_proposed, interleaver, sealed, processed>>
  /\ UNCHANGED <<delayed_batches, notSequencerVars>>

\* HandleInternalRequest, kForwardBatch: ProcessMultiHomeBatch
SeqForwardBatch(m, b) ==
  /\ seq_events < MaxSeqEvents
  /\ <<m, b.id>> \notin processed
  /\ seq_events' = seq_events + 1
  /\ processed' = processed \cup {<<m, b.id>>}
  /\ IF b.transaction_type # "MULTI_HOME"
       THEN UNCHANGED <<batch, interleaver>>
       ELSE /\ batch' = [batch EXCEPT ![m] = PutLockOnlyTxns(@, b.transactions, m[1])]
            /\ interleaver' = Deliver(interleaver, {m[1]} \X Partitions,
                                      [kind |-> "MULTI_HOME", id |-> b.id,
                                       same_origin_position |-> 0, from |-> m])
  /\ UNCHANGED <<batch_id_counter, paxos_proposed, sealed>>
  /\ UNCHANGED <<delayed_batches, notSequencerVars>>

\* HandleCustomSocket: a tick of the sequencer, in a build without
\* ENABLE_REPLICATION_DELAY
SeqTick(m) ==
  /\ seq_events < MaxSeqEvents
  /\ seq_events' = seq_events + 1
  /\ IF batch[m] = <<>>
       THEN UNCHANGED <<batch, batch_id_counter, paxos_proposed, interleaver, sealed>>
       ELSE LET counter == batch_id_counter[m] + 1
                batch_id == NextBatchId(counter, m)
                msg == [kind |-> "SINGLE_HOME", id |-> batch_id,
                        same_origin_position |-> counter - 1, from |-> m]
            IN /\ batch_id_counter' = [batch_id_counter EXCEPT ![m] = counter]
               /\ paxos_proposed' = [paxos_proposed EXCEPT ![m] = Append(@, m[2])]
               /\ interleaver' = Deliver(interleaver, InterleaverTargets(m), msg)
               /\ sealed' = Append(sealed, [from |-> m, id |-> batch_id,
                                            same_origin_position |-> counter - 1,
                                            transactions |-> batch[m]])
               /\ batch' = [batch EXCEPT ![m] = <<>>]
  /\ UNCHANGED processed
  /\ UNCHANGED <<delayed_batches, notSequencerVars>>

SequencerNext ==
  \/ \E m \in Sequencers : \E txn \in SingleHomeTxns : SeqForwardTxn(m, txn)
  \/ \E m \in Sequencers : \E b \in ForwardedBatches : SeqForwardBatch(m, b)
  \/ \E m \in Sequencers : SeqTick(m)

\* The interleavers of every replica but the sequencer's own
OtherReplicaTargets(m) == (Replicas \ {m[1]}) \X Partitions

\* DelaySingleHomeBatch: the request joins delayed_batches_ and goes to the
\* interleavers of the local replica only
DelaySingleHomeBatch(inbox, delayed, m, request) ==
  [interleaver |-> Deliver(inbox, SameReplicaTargets(m), request),
   delayed_batches |-> Append(delayed, request)]

\* The loop of MaybeSendDelayedBatches over delayed_batches_; `chosen` are
\* the places of the list at which rand() % replication_delay_amount is 0
RECURSIVE SendDelayedLoop(_, _, _, _, _, _)
SendDelayedLoop(inbox, kept, rest, i, m, chosen) ==
  IF rest = <<>> THEN [interleaver |-> inbox, delayed_batches |-> kept]
  ELSE IF i \in chosen
    THEN SendDelayedLoop(Deliver(inbox, OtherReplicaTargets(m), Head(rest)),
                         kept, Tail(rest), i + 1, m, chosen)
    ELSE SendDelayedLoop(inbox, Append(kept, Head(rest)), Tail(rest), i + 1, m, chosen)

\* A release that erases the chosen batches and sends nothing
EraseDelayedBatches(inbox, delayed, m, chosen) ==
  [interleaver |-> inbox,
   delayed_batches |-> SendDelayedLoop(inbox, <<>>, delayed, 1, m, chosen).delayed_batches]

MaybeSendDelayedBatches(inbox, delayed, m, chosen) ==
  SendDelayedLoop(inbox, <<>>, delayed, 1, m, chosen)

\* HandleCustomSocket in a build with ENABLE_REPLICATION_DELAY. `chosen` and
\* `delay` are the outcomes of rand(): the delayed batches to send now, and
\* whether rand() % 100 < replication_delay_percent for the batch sealed now.
SeqTickDelay(m, chosen, delay) ==
  /\ chosen \subseteq 1..Len(delayed_batches[m])
  /\ LET sent == MaybeSendDelayedBatches(interleaver, delayed_batches[m], m, chosen) IN
     IF batch[m] = <<>>
       THEN /\ interleaver' = sent.interleaver
            /\ delayed_batches' = [delayed_batches EXCEPT ![m] = sent.delayed_batches]
            /\ UNCHANGED <<batch, batch_id_counter, paxos_proposed, sealed>>
       ELSE LET counter == batch_id_counter[m] + 1
                batch_id == NextBatchId(counter, m)
                msg == [kind |-> "SINGLE_HOME", id |-> batch_id,
                        same_origin_position |-> counter - 1, from |-> m]
                out == IF delay
                         THEN DelaySingleHomeBatch(sent.interleaver, sent.delayed_batches, m, msg)
                         ELSE [interleaver |-> Deliver(sent.interleaver, InterleaverTargets(m), msg),
                               delayed_batches |-> sent.delayed_batches]
            IN /\ batch_id_counter' = [batch_id_counter EXCEPT ![m] = counter]
               /\ paxos_proposed' = [paxos_proposed EXCEPT ![m] = Append(@, m[2])]
               /\ interleaver' = out.interleaver
               /\ delayed_batches' = [delayed_batches EXCEPT ![m] = out.delayed_batches]
               /\ sealed' = Append(sealed, [from |-> m, id |-> batch_id,
                                            same_origin_position |-> counter - 1,
                                            transactions |-> batch[m]])
               /\ batch' = [batch EXCEPT ![m] = <<>>]
  /\ UNCHANGED <<processed, seq_events>>
  /\ UNCHANGED notSequencerVars

\* The sequencers of a build with ENABLE_REPLICATION_DELAY
SequencerDelayNext ==
  \/ \E m \in Sequencers : \E txn \in SingleHomeTxns :
       seq_events < MaxDelayEvents /\ SeqForwardTxn(m, txn)
  \/ \E m \in Sequencers : \E b \in ForwardedBatches :
       seq_events < MaxDelayEvents /\ SeqForwardBatch(m, b)
  \/ \E m \in Sequencers : \E chosen \in SUBSET (1..MaxDelayEvents) : \E delay \in BOOLEAN :
       SeqTickDelay(m, chosen, delay)

(***************************************************************************)
(* Simple multi-decree Paxos                                               *)
(***************************************************************************)
\* The group, in member-list order, and the machines that run a Paxos module
members == <<"m0", "m1">>
PaxosMembers == {members[i] : i \in 1..Len(members)}
PaxosMachines == PaxosMembers \cup {"outsider"}

\* The pre-elected leader
elected_leader == members[PAXOS_DEFAULT_LEADER_POSITION + 1]

\* The Propose calls clients make: <<machine, value>>
ProposeCalls == {<<"m0", 111>>, <<"m0", 222>>, <<"m1", 222>>, <<"outsider", 111>>}

\* Proposal(ballot, value) and a proposal marked committed; ballots do not
\* change without a leader change and are left out
Proposal(value) == [value |-> value, is_committed |-> FALSE]

\* A committed proposal whose value was left as Proposal() makes it
CommittedUnset(value) == [value |-> 0, is_committed |-> TRUE]

Committed(value) == [value |-> value, is_committed |-> TRUE]

NoProposals == [s \in {} |-> Proposal(0)]

\* f with the entry of slot s set to p
WithSlot(f, s, p) == [x \in DOMAIN f \cup {s} |-> IF x = s THEN p ELSE f[x]]

\* A majority of the members
IsQuorum(S) == 2 * Cardinality(S) > Len(members)

\* A proposal that is not the leader's is thrown away
DropProposal(value, n) == {}

\* A machine that is not the leader sends the proposal on to the leader
ForwardProposal(value, n) ==
  {[type |-> "Propose", to |-> elected_leader, value |-> value, n |-> n]}

\* A message for the leader alone
SendToLeader(type, slot, value) ==
  {[type |-> type, to |-> elected_leader, slot |-> slot, value |-> value]}

\* SendToAllMembers
SendToAllMembers(type, slot, value) ==
  {[type |-> type, to |-> m, slot |-> slot, value |-> value] : m \in PaxosMembers}

\* Only the newest committed slot is reported
RECURSIVE ReportNewest(_, _, _)
ReportNewest(props, min_slot, reported) ==
  IF \E s \in DOMAIN props : props[s].is_committed
    THEN LET s == CHOOSE x \in DOMAIN props :
                    props[x].is_committed /\ \A y \in DOMAIN props : props[y].is_committed => y <= x
         IN [proposals |-> [x \in {y \in DOMAIN props : y > s} |-> props[x]],
             min_uncommitted_slot |-> s + 1,
             on_commit |-> Append(reported, <<s, props[s].value>>)]
    ELSE [proposals |-> props, min_uncommitted_slot |-> min_slot, on_commit |-> reported]

\* Report to the user of Paxos every committed proposal from
\* min_uncommitted_slot on, up to the first slot not yet committed
RECURSIVE ReportCommitted(_, _, _)
ReportCommitted(props, min_slot, reported) ==
  IF min_slot \in DOMAIN props /\ props[min_slot].is_committed
    THEN ReportCommitted([s \in DOMAIN props \ {min_slot} |-> props[s]], min_slot + 1,
                         Append(reported, <<min_slot, props[min_slot].value>>))
    ELSE [proposals |-> props, min_uncommitted_slot |-> min_slot, on_commit |-> reported]

PaxosInit ==
  /\ proposals = [m \in PaxosMachines |-> NoProposals]
  /\ min_uncommitted_slot = [m \in PaxosMachines |-> 0]
  /\ next_empty_slot = 0
  /\ accepted_from = [s \in {} |-> {}]
  /\ on_commit = [m \in PaxosMachines |-> <<>>]
  /\ net = {}
  /\ proposes = <<>>
  /\ received = <<>>

\* Leader::StartNewAcceptance at the elected leader
StartNewAcceptance(value) ==
  /\ proposals' = [proposals EXCEPT
                     ![elected_leader] = WithSlot(@, next_empty_slot, Proposal(value))]
  /\ accepted_from' = WithSlot(accepted_from, next_empty_slot, {})
  /\ next_empty_slot' = next_empty_slot + 1
  /\ received' = Append(received, value)

\* A client hands Propose(value) to the Paxos module of machine m
Propose(m, value) ==
  /\ Len(proposes) < MaxProposals
  /\ proposes' = Append(proposes, [at |-> m, value |-> value])
  /\ IF m = elected_leader
       THEN /\ StartNewAcceptance(value)
            /\ net' = net \cup SendToAllMembers("Accept", next_empty_slot, value)
       ELSE /\ net' = net \cup ForwardProposal(value, Len(proposes) + 1)
            /\ UNCHANGED <<proposals, accepted_from, next_empty_slot, received>>
  /\ UNCHANGED <<min_uncommitted_slot, on_commit>>
  /\ UNCHANGED notPaxosVars

\* The leader gets a forwarded proposal
HandleForwarded(msg) ==
  /\ msg \in net /\ msg.type = "Propose"
  /\ StartNewAcceptance(msg.value)
  /\ net' = (net \ {msg}) \cup SendToAllMembers("Accept", next_empty_slot, msg.value)
  /\ UNCHANGED <<min_uncommitted_slot, on_commit, proposes>>
  /\ UNCHANGED notPaxosVars

\* Acceptor of a member gets Accept and answers Accepted
HandleAccept(msg) ==
  /\ msg \in net /\ msg.type = "Accept"
  /\ net' = (net \ {msg}) \cup {[type |-> "Accepted", to |-> elected_leader,
                                 slot |-> msg.slot, from |-> msg.to]}
  /\ UNCHANGED <<proposals, min_uncommitted_slot, next_empty_slot, accepted_from,
                 on_commit, proposes, received>>
  /\ UNCHANGED notPaxosVars

\* The leader gets Accepted: AcceptanceStateChanged, and StartNewCommit when
\* the answer completes a majority
HandleAccepted(msg) ==
  /\ msg \in net /\ msg.type = "Accepted"
  /\ LET before == accepted_from[msg.slot]
         after == before \cup {msg.from}
     IN /\ accepted_from' = [accepted_from EXCEPT ![msg.slot] = after]
        /\ net' = (net \ {msg}) \cup
                  IF ~IsQuorum(before) /\ IsQuorum(after)
                    THEN SendToAllMembers("Commit", msg.slot,
                                          proposals[elected_leader][msg.slot].value)
                    ELSE {}
  /\ UNCHANGED <<proposals, min_uncommitted_slot, next_empty_slot, on_commit,
                 proposes, received>>
  /\ UNCHANGED notPaxosVars

\* A member gets Commit: ProcessCommitRequest
HandleCommit(msg) ==
  /\ msg \in net /\ msg.type = "Commit"
  /\ net' = net \ {msg}
  /\ LET m == msg.to
         marked == IF msg.slot < min_uncommitted_slot[m] THEN proposals[m]
                   ELSE WithSlot(proposals[m], msg.slot, Committed(msg.value))
         after == ReportCommitted(marked, min_uncommitted_slot[m], on_commit[m])
     IN /\ proposals' = [proposals EXCEPT ![m] = after.proposals]
        /\ min_uncommitted_slot' = [min_uncommitted_slot EXCEPT ![m] = after.min_uncommitted_slot]
        /\ on_commit' = [on_commit EXCEPT ![m] = after.on_commit]
  /\ UNCHANGED <<next_empty_slot, accepted_from, proposes, received>>
  /\ UNCHANGED notPaxosVars

PaxosNext ==
  \/ \E call \in ProposeCalls : Propose(call[1], call[2])
  \/ \E msg \in net : HandleForwarded(msg)
  \/ \E msg \in net : HandleAccept(msg)
  \/ \E msg \in net : HandleAccepted(msg)
  \/ \E msg \in net : HandleCommit(msg)

(***************************************************************************)
(* Scheduler: the replicas of one partition                                *)
(***************************************************************************)
\* The sequences of txns the interleaver can hand to the schedulers of a
\* partition: three txns of different ids, each with a key of the partition
InterleavedLogs ==
  {l \in {<<a, b, c>> : a, b, c \in {t \in Transactions : ExtractKeys(t) # <<>>}} :
     {l[i].id : i \in DOMAIN l} = TxnIds}

\* The txn of the log with this id
LoggedTxn(id) == sched_log[CHOOSE i \in DOMAIN sched_log : sched_log[i].id = id]

SchedulerInit ==
  /\ sched_log \in InterleavedLogs
  /\ sched_next = [r \in Replicas |-> 1]
  /\ sched_locks = [r \in Replicas |-> [lt |-> << >>, nlw |-> [t \in TxnIds |-> 0]]]
  /\ sched_running = [r \in Replicas |-> {}]
  /\ commit_order = [r \in Replicas |-> <<>>]

\* The scheduler of replica r takes the next txn of the log: lock
\* acquisition, and dispatch to a worker if every lock is held
SchedArrive(r) ==
  /\ sched_next[r] <= Len(sched_log)
  /\ LET txn == sched_log[sched_next[r]]
         s == RegisterTxnAndAcquireLocks(sched_locks[r], txn.id, txn)
     IN /\ sched_locks' = [sched_locks EXCEPT ![r] = [lt |-> s.lt, nlw |-> s.nlw]]
        /\ sched_running' = [sched_running EXCEPT ![r] = IF s.ret THEN @ \cup {txn.id} ELSE @]
  /\ sched_next' = [sched_next EXCEPT ![r] = @ + 1]
  /\ UNCHANGED <<sched_log, commit_order>>
  /\ UNCHANGED notSchedulerVars

\* A worker of replica r commits and finishes a txn: the scheduler releases
\* its locks and dispatches every txn that became ready
WorkerFinish(r, id) ==
  /\ id \in sched_running[r]
  /\ LET s == ReleaseLocks(sched_locks[r], id, LoggedTxn(id))
     IN /\ sched_locks' = [sched_locks EXCEPT ![r] = [lt |-> s.lt, nlw |-> s.nlw]]
        /\ sched_running' = [sched_running EXCEPT ![r] = (@ \ {id}) \cup s.ret]
  /\ commit_order' = [commit_order EXCEPT ![r] = Append(@, id)]
  /\ UNCHANGED <<sched_log, sched_next>>
  /\ UNCHANGED notSchedulerVars

SchedulerNext ==
  \/ \E r \in Replicas : SchedArrive(r)
  \/ \E r \in Replicas : \E id \in TxnIds : WorkerFinish(r, id)

(***************************************************************************)
(* TxnHolder and the join of a multi-home txn                              *)
(***************************************************************************)
\* txn->internal().involved_replicas() of the multi-home txns
InvolvedReplicas(id) == IF id = MultiHomeTxn9.id THEN {1} ELSE Replicas

\* The transactions that reach a scheduler for a multi-home txn: one per
\* home region, as <<txn id, home>>
JoinPieces ==
  {<<id, home>> \in {MultiHomeTxn7.id, MultiHomeTxn9.id} \X Replicas :
     home \in InvolvedReplicas(id)}

\* A holder that does not count the transaction it is made from
HolderUncounted(id, home) ==
  [txn_id |-> id, main_txn |-> home, lo_txns |-> {home}, done |-> FALSE,
   num_lo_txns |-> 0,
   expected_num_lo_txns |-> Cardinality(InvolvedReplicas(id)),
   num_dispatches |-> 0]

\* TxnHolder(config, txn): lo_txns is the set of homes whose slot of lo_txns_
\* is not null
TxnHolder(id, home) ==
  [txn_id |-> id, main_txn |-> home, lo_txns |-> {home}, done |-> FALSE,
   num_lo_txns |-> 1,
   expected_num_lo_txns |-> Cardinality(InvolvedReplicas(id)),
   num_dispatches |-> 0]

\* A holder that counts a transaction whose home slot is already taken
CountAnyTxn(h, home) ==
  [holder |-> [h EXCEPT !.num_lo_txns = @ + 1], ret |-> TRUE]

\* TxnHolder::AddLockOnlyTxn
AddLockOnlyTxn(h, home) ==
  IF home \in h.lo_txns
    THEN [holder |-> h, ret |-> FALSE]
    ELSE [holder |-> [h EXCEPT !.lo_txns = @ \cup {home}, !.num_lo_txns = @ + 1],
          ret |-> TRUE]

\* The scheduler dispatches the txn once every expected transaction is in
MaybeDispatch(h) ==
  IF h.num_lo_txns = h.expected_num_lo_txns
    THEN [h EXCEPT !.num_dispatches = @ + 1]
    ELSE h

\* The homes whose transaction was handed to the holder since it was made,
\* and whether Release was called on it
NoHolderHist == [homes |-> {}, released |-> FALSE]

JoinInit ==
  /\ txn_holders = [p \in Partitions |-> [id \in {} |-> 0]]
  /\ join_arrived = [p \in Partitions |-> <<>>]
  /\ applied = [p \in Partitions |-> [id \in {MultiHomeTxn7.id, MultiHomeTxn9.id} |-> 0]]
  /\ holder_hist = [p \in Partitions |->
                     [id \in {MultiHomeTxn7.id, MultiHomeTxn9.id} |-> NoHolderHist]]

\* A transaction of a multi-home txn reaches the scheduler of partition p
JoinArrive(p, piece) ==
  /\ Len(join_arrived[p]) < MaxArrivals
  /\ join_arrived' = [join_arrived EXCEPT ![p] = Append(@, piece)]
  /\ LET id == piece[1]
         r == IF id \in DOMAIN txn_holders[p]
                THEN AddLockOnlyTxn(txn_holders[p][id], piece[2])
                ELSE [holder |-> TxnHolder(id, piece[2]), ret |-> TRUE]
         h == IF r.ret THEN MaybeDispatch(r.holder) ELSE r.holder
     IN txn_holders' = [txn_holders EXCEPT ![p] =
                      [x \in DOMAIN @ \cup {id} |-> IF x = id THEN h ELSE @[x]]]
  /\ UNCHANGED <<applied, holder_hist>>
  /\ UNCHANGED notJoinVars

\* The worker of partition p commits a dispatched txn and finishes it
JoinCommit(p, id) ==
  /\ id \in DOMAIN txn_holders[p]
  /\ txn_holders[p][id].num_dispatches > 0 /\ ~txn_holders[p][id].done
  /\ applied' = [applied EXCEPT ![p][id] = @ + txn_holders[p][id].num_dispatches]
  /\ txn_holders' = [txn_holders EXCEPT ![p][id].done = TRUE]
  /\ UNCHANGED <<join_arrived, holder_hist>>
  /\ UNCHANGED notJoinVars

JoinNext ==
  \/ \E p \in Partitions : \E piece \in JoinPieces : JoinArrive(p, piece)
  \/ \E p \in Partitions : \E id \in {MultiHomeTxn7.id, MultiHomeTxn9.id} : JoinCommit(p, id)

(***************************************************************************)
(* The life of a TxnHolder: Release and garbage collection                 *)
(***************************************************************************)
\* TxnHolder::is_ready_for_gc
is_ready_for_gc(h) == h.done /\ h.num_lo_txns = h.expected_num_lo_txns

\* TxnHolder::Release: every slot of lo_txns_ is reset, the counts stay
HolderRelease(h) == [h EXCEPT !.lo_txns = {}]

\* TxnHolder::SetDone
SetDone(h) == [h EXCEPT !.done = TRUE]

\* A transaction of a multi-home txn reaches the scheduler of partition p,
\* which makes the holder or adds the transaction to it; a txn that is not
\* done is dispatched once every expected transaction is in
HolderArrive(p, piece) ==
  /\ Len(join_arrived[p]) < MaxArrivals
  /\ join_arrived' = [join_arrived EXCEPT ![p] = Append(@, piece)]
  /\ LET id == piece[1]
         r == IF id \in DOMAIN txn_holders[p]
                THEN AddLockOnlyTxn(txn_holders[p][id], piece[2])
                ELSE [holder |-> TxnHolder(id, piece[2]), ret |-> TRUE]
         h == IF r.ret /\ ~r.holder.done THEN MaybeDispatch(r.holder) ELSE r.holder
     IN /\ txn_holders' = [txn_holders EXCEPT ![p] =
                         [x \in DOMAIN @ \cup {id} |-> IF x = id THEN h ELSE @[x]]]
        /\ holder_hist' = [holder_hist EXCEPT ![p][id].homes = @ \cup {piece[2]}]
  /\ UNCHANGED applied
  /\ UNCHANGED notJoinVars

\* The worker of partition p is through with a dispatched txn: the holder is
\* done and its transactions are released to be sent back
HolderFinish(p, id) ==
  /\ id \in DOMAIN txn_holders[p]
  /\ txn_holders[p][id].num_dispatches > 0 /\ ~txn_holders[p][id].done
  /\ applied' = [applied EXCEPT ![p][id] = @ + txn_holders[p][id].num_dispatches]
  /\ txn_holders' = [txn_holders EXCEPT ![p][id] = HolderRelease(SetDone(@))]
  /\ holder_hist' = [holder_hist EXCEPT ![p][id].released = TRUE]
  /\ UNCHANGED join_arrived
  /\ UNCHANGED notJoinVars

\* The scheduler of partition p collects a holder that is ready for it
HolderCollect(p, id) ==
  /\ id \in DOMAIN txn_holders[p]
  /\ is_ready_for_gc(txn_holders[p][id])
  /\ txn_holders' = [txn_holders EXCEPT ![p] = [x \in DOMAIN @ \ {id} |-> @[x]]]
  /\ holder_hist' = [holder_hist EXCEPT ![p][id] = NoHolderHist]
  /\ UNCHANGED <<join_arrived, applied>>
  /\ UNCHANGED notJoinVars

HolderNext ==
  \/ \E p \in Partitions : \E piece \in JoinPieces : HolderArrive(p, piece)
  \/ \E p \in Partitions : \E id \in {MultiHomeTxn7.id, MultiHomeTxn9.id} : HolderFinish(p, id)
  \/ \E p \in Partitions : \E id \in {MultiHomeTxn7.id, MultiHomeTxn9.id} : HolderCollect(p, id)

(***************************************************************************)
(* Server (module/server.cpp)                                              *)
(***************************************************************************)
\* The machine whose server is followed
ServerMachine == <<0, 1>>

\* A Transaction as the client builds it
ClientTxn(rs, ws, proc) ==
  [read_set |-> rs, write_set |-> ws, procedure |-> proc,
   status |-> "NOT_STARTED", abort_reason |-> ""]

\* The api::Request messages of the clients, each with the partitions that
\* hold its keys: the involved_partitions of its completed sub-txns.
ClientRequests ==
  { [stream_id |-> 11, txn |-> ClientTxn({"A"}, {"B"}, "code"), involved |-> {0, 1}],
    [stream_id |-> 12, txn |-> ClientTxn({}, {"A"}, "code"), involved |-> {0}],
    [stream_id |-> 13, txn |-> ClientTxn({}, {"B"}, "remaster"), involved |-> {1}],
    [stream_id |-> 14, txn |-> ClientTxn({}, {}, "code"), involved |-> {}],
    [stream_id |-> 15, txn |-> ClientTxn({"A"}, {"B"}, "remaster"), involved |-> {0, 1}],
    [stream_id |-> 16, txn |-> ClientTxn({}, {"A", "B"}, "remaster"), involved |-> {0, 1}] }

\* Server::NextTxnId, after txn_id_counter_++
NextTxnId(counter) == counter * kMaxNumMachines + LocalMachineId(ServerMachine)

\* A txn id the server never hands out
UnknownTxnId == NextTxnId(MaxRequests + 1)

\* Server::ValidateTransaction: a CHECK that fails ends the process, and
\* nothing else makes it return anything but true.
ValidateTransaction(txn) ==
  IF Cardinality(txn.read_set) + Cardinality(txn.write_set) = 0 THEN "CHECK"
  ELSE IF txn.procedure = "remaster" /\ Cardinality(txn.read_set) # 0 THEN "CHECK"
  ELSE IF txn.procedure = "remaster" /\ Cardinality(txn.write_set) # 1 THEN "CHECK"
  ELSE "true"

\* Server::SendAPIResponse on s = [pending, completed, out]
SendAPIResponse(s, txn_id, res) ==
  IF txn_id \notin DOMAIN s.pending THEN s
  ELSE [s EXCEPT !.out = Append(@, [res EXCEPT !.stream_id = s.pending[txn_id]]),
                 !.pending = [i \in (DOMAIN @) \ {txn_id} |-> @[i]]]

\* A server that answers at the first sub-txn of a txn
AnswerFirstSubtxn(s, txn_id, sub_txn_origin, involved_partitions, sub_txn) ==
  SendAPIResponse(s, txn_id, [txn_id |-> txn_id, stream_id |-> 0,
                              txn |-> sub_txn, merged |-> {sub_txn_origin}])

\* Server::ProcessCompletedSubtxn on s = [pending, completed, out]; a
\* completed txn is kept as the partitions still awaited and the partitions
\* whose sub-txns make up its txn.
ProcessCompletedSubtxn(s, txn_id, sub_txn_origin, involved_partitions, sub_txn) ==
  IF txn_id \notin DOMAIN s.pending THEN s
  ELSE
    LET first == txn_id \notin DOMAIN s.completed
        old == IF first THEN [awaited_partitions |-> {}, merged |-> {}, txn |-> sub_txn]
               ELSE s.completed[txn_id]
        completed_txn ==
          IF first
          THEN [awaited_partitions |-> involved_partitions \ {sub_txn_origin},
                merged |-> {sub_txn_origin}, txn |-> sub_txn]
          ELSE IF sub_txn_origin \in old.awaited_partitions
          THEN [old EXCEPT !.awaited_partitions = @ \ {sub_txn_origin},
                           !.merged = @ \cup {sub_txn_origin}]
          ELSE old
        kept == [s EXCEPT !.completed =
                   [i \in (DOMAIN @) \cup {txn_id} |->
                      IF i = txn_id THEN completed_txn ELSE @[i]]]
    IN  IF completed_txn.awaited_partitions = {}
        THEN LET sent == SendAPIResponse(kept, txn_id,
                           [txn_id |-> txn_id, stream_id |-> 0,
                            txn |-> completed_txn.txn,
                            merged |-> completed_txn.merged])
             IN  [sent EXCEPT !.completed = [i \in (DOMAIN @) \ {txn_id} |-> @[i]]]
        ELSE kept

ServerState == [pending |-> pending_responses, completed |-> completed_txns, out |-> to_client]

SetServerState(s) ==
  /\ pending_responses' = s.pending
  /\ completed_txns' = s.completed
  /\ to_client' = s.out

ServerInit ==
  /\ txn_id_counter = 0
  /\ pending_responses = << >>
  /\ completed_txns = << >>
  /\ to_client = <<>>
  /\ to_forwarder = <<>>
  /\ server_up = TRUE
  /\ server_requests = <<>>
  /\ server_subtxns = <<>>

\* Server::HandleCustomSocket for an api::Request of type kTxn
ServerHandleTxnRequest(request) ==
  /\ server_up
  /\ Len(server_requests) < MaxRequests
  /\ LET txn_id == NextTxnId(txn_id_counter + 1)
         registered == [ServerState EXCEPT !.pending =
                          [i \in (DOMAIN @) \cup {txn_id} |->
                             IF i = txn_id THEN request.stream_id ELSE @[i]]]
         valid == ValidateTransaction(request.txn)
     IN  /\ txn_id_counter' = txn_id_counter + 1
         /\ server_requests' = Append(server_requests,
                                      [id |-> txn_id, stream_id |-> request.stream_id,
                                       txn |-> request.txn, involved |-> request.involved])
         /\ server_up' = (valid # "CHECK")
         /\ IF valid = "true"
            THEN /\ to_forwarder' = Append(to_forwarder, [id |-> txn_id, txn |-> request.txn])
                 /\ SetServerState(registered)
            ELSE IF valid = "false"
            THEN /\ UNCHANGED to_forwarder
                 /\ SetServerState(ProcessCompletedSubtxn(registered, txn_id, 0, {0},
                                        [request.txn EXCEPT !.status = "ABORTED"]))
            ELSE /\ UNCHANGED to_forwarder
                 /\ SetServerState(registered)
  /\ UNCHANGED server_subtxns
  /\ UNCHANGED notServerVars

\* Server::HandleInternalRequest for a CompletedSubtransaction
ServerHandleCompletedSubtxn(txn_id, origin, involved, sub_txn) ==
  /\ server_up
  /\ Len(server_subtxns) < MaxSubtxns
  /\ SetServerState(ProcessCompletedSubtxn(ServerState, txn_id, origin, involved, sub_txn))
  /\ server_subtxns' = Append(server_subtxns, <<txn_id, origin>>)
  /\ UNCHANGED <<txn_id_counter, to_forwarder, server_up, server_requests>>
  /\ UNCHANGED notServerVars

\* The txn ids a completed sub-txn may carry: those of the txns sent to the
\* forwarder and one the server does not know
SubTxnIds == { to_forwarder[i].id : i \in DOMAIN to_forwarder } \cup {UnknownTxnId}

\* The involved_partitions the sub-txns of a txn id carry
InvolvedOf(txn_id) ==
  IF txn_id = UnknownTxnId THEN { {0}, {0, 1} }
  ELSE { server_requests[i].involved :
           i \in { j \in DOMAIN server_requests : server_requests[j].id = txn_id } }

\* The txn a completed sub-txn carries: the txn forwarded, as the workers
\* left it
CompletedTxnOf(txn_id) ==
  IF txn_id = UnknownTxnId THEN ClientTxn({"A"}, {}, "code")
  ELSE [(CHOOSE r \in { server_requests[j] : j \in DOMAIN server_requests } :
           r.id = txn_id).txn EXCEPT !.status = "COMMITTED"]

ServerNext ==
  \/ \E request \in ClientRequests : ServerHandleTxnRequest(request)
  \/ \E txn_id \in SubTxnIds : \E involved \in InvolvedOf(txn_id) :
       \E origin \in involved :
         ServerHandleCompletedSubtxn(txn_id, origin, involved, CompletedTxnOf(txn_id))

(***************************************************************************)
(* Forwarder (spec.md 4.4; data of forwarder_test.cpp)                     *)
(***************************************************************************)
\* The records of the storages: key -> partition that holds it and its
\* master metadata. The keys NEW and KEY are in no storage.
ForwarderData ==
  [A |-> [partition |-> 0, meta |-> Meta(0, 0)],
   C |-> [partition |-> 0, meta |-> Meta(1, 1)],
   B |-> [partition |-> 1, meta |-> Meta(0, 1)],
   X |-> [partition |-> 1, meta |-> Meta(1, 0)]]

\* The txns the clients send, as <<read_set, write_set>>
ForwarderTxns ==
  { <<{"A"}, {"B"}>>, <<{"C"}, {"X"}>>, <<{"A"}, {}>>, <<{"NEW"}, {"KEY"}>>,
    <<{"A"}, {"C"}>>, <<{"NEW"}, {"X"}>>, <<{"B", "C"}, {"A"}>> }

\* The answer of the lookup of one key
LookupMaster(key) ==
  IF key \in DOMAIN ForwarderData THEN ForwarderData[key].meta
  ELSE Meta(DEFAULT_MASTER_REGION_OF_NEW_KEY, 0)

\* A forwarder that takes every txn for a single-home txn
AlwaysSingleHome(master_metadata) == "SINGLE_HOME"

\* The type of a txn whose master metadata is complete
TxnTypeOf(master_metadata) ==
  IF Cardinality({ master_metadata[k].master : k \in DOMAIN master_metadata }) = 1
  THEN "SINGLE_HOME" ELSE "MULTI_HOME"

LeaderPartitionForMultiHomeOrdering == Cardinality(Partitions) - 1

ForwarderInit ==
  /\ sequencer_channel = [m \in Machines |-> <<>>]
  /\ orderer_channel = [m \in Machines |-> <<>>]
  /\ forwarded = <<>>

\* The forwarder of machine m handles a ForwardTxn; partition is the
\* partition of the home region it sends a single-home txn of another
\* region to.
ForwardTxn(m, rw, partition) ==
  /\ Len(forwarded) < MaxForwards
  /\ LET keys == rw[1] \cup rw[2]
         master_metadata == [k \in keys |-> LookupMaster(k)]
         type == TxnTypeOf(master_metadata)
         txn == [id |-> Len(forwarded) + 1, read_set |-> rw[1], write_set |-> rw[2],
                 type |-> type, master_metadata |-> master_metadata]
         home == master_metadata[CHOOSE k \in keys : TRUE].master
     IN  /\ forwarded' = Append(forwarded, [machine |-> m, read_set |-> rw[1], write_set |-> rw[2]])
         /\ IF type = "SINGLE_HOME"
            THEN /\ sequencer_channel' =
                      [sequencer_channel EXCEPT
                         ![IF home = m[1] THEN m ELSE <<home, partition>>] = Append(@, txn)]
                 /\ UNCHANGED orderer_channel
            ELSE /\ orderer_channel' =
                      [orderer_channel EXCEPT
                         ![<<m[1], LeaderPartitionForMultiHomeOrdering>>] = Append(@, txn)]
                 /\ UNCHANGED sequencer_channel
  /\ UNCHANGED notForwarderVars

ForwarderNext ==
  \E m \in Machines : \E rw \in ForwarderTxns : \E partition \in Partitions :
    ForwardTxn(m, rw, partition)

(***************************************************************************)
(* AsyncLog (common/async_log.h)                                           *)
(***************************************************************************)
LogPositions == 0..3

\* An Insert that overwrites a position already taken
InsertOverwrites(l, position, item) ==
  IF position < l.next THEN [log |-> l.log, next |-> l.next, threw |-> FALSE]
  ELSE [log |-> [p \in (DOMAIN l.log) \cup {position} |->
                   IF p = position THEN item ELSE l.log[p]],
        next |-> l.next, threw |-> FALSE]

\* AsyncLog::Insert on l = [log, next]; threw tells whether it threw
Insert(l, position, item) ==
  IF position < l.next THEN [log |-> l.log, next |-> l.next, threw |-> FALSE]
  ELSE IF position \in DOMAIN l.log THEN [log |-> l.log, next |-> l.next, threw |-> TRUE]
  ELSE [log |-> [p \in (DOMAIN l.log) \cup {position} |->
                   IF p = position THEN item ELSE l.log[p]],
        next |-> l.next, threw |-> FALSE]

\* AsyncLog::HasNext
HasNext(l) == l.next \in DOMAIN l.log

\* A log that hands out the item of the lowest position it holds
TakeLowest(l) ==
  IF l.log = << >> THEN [log |-> l.log, next |-> l.next, threw |-> TRUE, result |-> 0]
  ELSE LET low == CHOOSE p \in DOMAIN l.log : \A q \in DOMAIN l.log : p <= q
       IN  [log |-> [p \in (DOMAIN l.log) \ {low} |-> l.log[p]],
            next |-> low + 1, threw |-> FALSE, result |-> l.log[low]]

\* AsyncLog::Next
LogNext(l) ==
  IF ~HasNext(l) THEN [log |-> l.log, next |-> l.next, threw |-> TRUE, result |-> 0]
  ELSE [log |-> [p \in (DOMAIN l.log) \ {l.next} |-> l.log[p]],
        next |-> l.next + 1, threw |-> FALSE, result |-> l.log[l.next]]

AsyncLogInit ==
  /\ start_from \in {0, 1}
  /\ log_ = << >>
  /\ next_ = start_from
  /\ log_inserts = <<>>
  /\ log_out = <<>>
  /\ log_last = "constructed"

\* A call of Insert; the item is the number of the call
AsyncLogInsert(position) ==
  /\ Len(log_inserts) + Len(log_out) < MaxLogCalls
  /\ LET item == 10 * (Len(log_inserts) + 1) + position
         r == Insert([log |-> log_, next |-> next_], position, item)
     IN  /\ log_' = r.log
         /\ next_' = r.next
         /\ log_inserts' = Append(log_inserts, <<position, item>>)
         /\ log_last' = IF r.threw THEN "Insert threw" ELSE "Insert returned"
  /\ UNCHANGED <<start_from, log_out>>
  /\ UNCHANGED notAsyncLogVars

\* A call of Next by a caller that asked HasNext first
AsyncLogNext ==
  /\ Len(log_inserts) + Len(log_out) < MaxLogCalls
  /\ HasNext([log |-> log_, next |-> next_])
  /\ LET r == LogNext([log |-> log_, next |-> next_])
     IN  /\ log_' = r.log
         /\ next_' = r.next
         /\ log_out' = Append(log_out, r.result)
         /\ log_last' = "Next returned"
  /\ UNCHANGED <<start_from, log_inserts>>
  /\ UNCHANGED notAsyncLogVars

\* A call of Next on a log without a next item: it throws
AsyncLogNextThrows ==
  /\ ~HasNext([log |-> log_, next |-> next_])
  /\ log_last # "Next threw"
  /\ LET r == LogNext([log |-> log_, next |-> next_])
     IN  /\ log_' = r.log
         /\ next_' = r.next
         /\ log_last' = IF r.threw THEN "Next threw" ELSE "Next returned"
  /\ UNCHANGED <<start_from, log_inserts, log_out>>
  /\ UNCHANGED notAsyncLogVars

AsyncLogStep ==
  \/ \E position \in LogPositions : AsyncLogInsert(position)
  \/ AsyncLogNext
  \/ AsyncLogNextThrows

(***************************************************************************)
(* Interleaver (spec.md 4.3), on the logs of async_log.h                   *)
(***************************************************************************)
\* What one region orders, whenever it arrives at the interleaver of a
\* replica of region 0: the partition ids its local Paxos committed, by
\* slot; the single-home batches of each partition, by same_origin_position;
\* the batches of region 1, by position; the remote_to_local_ratio.
InterleaverInputs ==
  { [commits |-> c, ratio |-> r,
     batches |-> [p \in Partitions |->
                    IF p = 0 THEN << <<1, 2>>, <<3>> >> ELSE << <<4>>, <<5, 6>> >>],
     remote_batches |-> << <<7>>, <<8, 9>> >>]
    : c \in { <<0, 1>>, <<1, 0, 0>>, <<1, 1, 0>> },
      r \in { [remote |-> 1, local |-> 1], [remote |-> 2, local |-> 1],
              [remote |-> 1, local |-> 2] } }

EmptyLog == [log |-> << >>, next |-> 0]

Consume(l) == [log |-> LogNext(l).log, next |-> LogNext(l).next]

Stored(r) == [log |-> r.log, next |-> r.next]

Tagged(txns, home) == [i \in DOMAIN txns |-> [txn |-> txns[i], home |-> home]]

\* An interleaver that passes over a log without a next item
RECURSIVE TakeWhatIsThere(_, _)
TakeWhatIsThere(s, ratio) ==
  LET local_ready == /\ HasNext(s.local_log)
                     /\ HasNext(s.local_batches[s.local_log.log[s.local_log.next]])
  IN  IF HasNext(s.remote_log)
      THEN TakeWhatIsThere(
             [s EXCEPT !.remote_log = Consume(@),
                       !.emitted = @ \o Tagged(LogNext(s.remote_log).result, 1)], ratio)
      ELSE IF local_ready
      THEN LET p == s.local_log.log[s.local_log.next]
           IN  TakeWhatIsThere(
                 [s EXCEPT !.local_log = Consume(@),
                           !.local_batches[p] = Consume(@),
                           !.emitted = @ \o Tagged(LogNext(s.local_batches[p]).result, 0)], ratio)
      ELSE s

\* The schedule: of every ratio.remote + ratio.local items the first
\* ratio.remote are the next batches of the remote log, the others the
\* batches the local log names next. It stops at an item that has not
\* arrived.
RECURSIVE AdvanceLogs(_, _)
AdvanceLogs(s, ratio) ==
  LET next_turn == (s.turn + 1) % (ratio.remote + ratio.local)
  IN  IF s.turn < ratio.remote
      THEN IF HasNext(s.remote_log)
           THEN AdvanceLogs(
                  [s EXCEPT !.remote_log = Consume(@),
                            !.turn = next_turn,
                            !.emitted = @ \o Tagged(LogNext(s.remote_log).result, 1)], ratio)
           ELSE s
      ELSE IF /\ HasNext(s.local_log)
              /\ HasNext(s.local_batches[s.local_log.log[s.local_log.next]])
           THEN LET p == s.local_log.log[s.local_log.next]
                IN  AdvanceLogs(
                      [s EXCEPT !.local_log = Consume(@),
                                !.local_batches[p] = Consume(@),
                                !.turn = next_turn,
                                !.emitted = @ \o Tagged(LogNext(s.local_batches[p]).result, 0)], ratio)
           ELSE s

InterleaverInit ==
  /\ il_inputs \in InterleaverInputs
  /\ il = [local_log |-> EmptyLog, local_batches |-> [p \in Partitions |-> EmptyLog],
           remote_log |-> EmptyLog, turn |-> 0, emitted |-> <<>>]
  /\ il_arrived = {}

\* The messages that reach the interleaver, in any order
InterleaverMessages(inputs) ==
  { <<"commit", 0, slot - 1>> : slot \in DOMAIN inputs.commits }
  \cup { <<"batch", p, k - 1>> : p \in Partitions, k \in 1..2 }
  \cup { <<"remote", 1, k - 1>> : k \in DOMAIN inputs.remote_batches }

\* A local Paxos commit, a batch of a local partition or a batch of the
\* remote region arrives: it is put into its log and the logs are advanced.
InterleaverReceive(msg) ==
  /\ msg \in InterleaverMessages(il_inputs) \ il_arrived
  /\ il_arrived' = il_arrived \cup {msg}
  /\ LET position == msg[3]
         put == CASE msg[1] = "commit" ->
                       [il EXCEPT !.local_log =
                          Stored(Insert(@, position, il_inputs.commits[position + 1]))]
                  [] msg[1] = "batch" ->
                       [il EXCEPT !.local_batches[msg[2]] =
                          Stored(Insert(@, position, il_inputs.batches[msg[2]][position + 1]))]
                  [] OTHER ->
                       [il EXCEPT !.remote_log =
                          Stored(Insert(@, position, il_inputs.remote_batches[position + 1]))]
     IN  il' = AdvanceLogs(put, il_inputs.ratio)
  /\ UNCHANGED il_inputs
  /\ UNCHANGED notInterleaverVars

InterleaverNext ==
  \E msg \in InterleaverMessages(il_inputs) : InterleaverReceive(msg)

(***************************************************************************)
(* Worker (spec.md 4.9; TransactionState of the worker header)             *)
(***************************************************************************)
\* The txns the scheduler of partition 0 dispatches to its worker. new_master
\* is -1 but for a remaster txn; write_set gives the value written per key.
WorkerTxns ==
  { [id |-> 1, read_set |-> {"A"}, write_set |-> [k \in {"A"} |-> "newA"],
     new_master |-> -1, involved_partitions |-> {0}],
    [id |-> 2, read_set |-> {"B"}, write_set |-> [k \in {"B", "X"} |-> "new2"],
     new_master |-> -1, involved_partitions |-> {0, 1, 2}],
    [id |-> 3, read_set |-> {}, write_set |-> [k \in {"A"} |-> ""],
     new_master |-> 1, involved_partitions |-> {0}],
    [id |-> 4, read_set |-> {"X"}, write_set |-> [k \in {"B"} |-> "new4"],
     new_master |-> -1, involved_partitions |-> {0, 1}] }

WorkerTxn(id) == CHOOSE txn \in WorkerTxns : txn.id = id

LocalKeysOf(txn) == { k \in txn.read_set \cup DOMAIN txn.write_set : KeyIsInLocalPartition(k) }

\* TransactionState(txn_holder)
NewTransactionState ==
  [remote_reads_waiting_on |-> 0, phase |-> "READ_LOCAL_STORAGE", status |-> "NOT_STARTED"]

\* Moving the txn to a phase, on w = [states, storage, completed, phases]
Enter(w, id, phase) ==
  [w EXCEPT !.states[id].phase = phase,
            !.phases[id] = Append(@, <<phase, w.states[id].remote_reads_waiting_on>>)]

\* A worker that does not wait for the reads of the other partitions
ReadWithoutWaiting(w, txn) == Enter(w, txn.id, "EXECUTE")

\* Worker::ReadLocalStorage: one remote read is expected of every other
\* involved partition
ReadLocalStorage(w, txn) ==
  LET waiting_on == Cardinality(txn.involved_partitions \ {0})
      counted == [w EXCEPT !.states[txn.id].remote_reads_waiting_on = waiting_on]
  IN  IF waiting_on = 0 THEN Enter(counted, txn.id, "EXECUTE")
      ELSE Enter(counted, txn.id, "WAIT_REMOTE_READ")

\* Worker::Execute: the code of the txn commits or aborts it
Execute(w, txn, outcome) ==
  Enter([w EXCEPT !.states[txn.id].status = outcome], txn.id, "COMMIT")

\* A worker that applies the write set whatever the status of the txn
CommitAnyStatus(w, txn) ==
  Enter([w EXCEPT !.storage =
           [k \in (DOMAIN @) \cup DOMAIN txn.write_set |->
              IF k \in DOMAIN txn.write_set
              THEN [value |-> txn.write_set[k], master |-> 0, counter |-> 0]
              ELSE @[k]]], txn.id, "FINISH")

\* Worker::Commit
Commit(w, txn) ==
  LET written == { k \in DOMAIN txn.write_set : KeyIsInLocalPartition(k) }
      old(k) == IF k \in DOMAIN w.storage THEN w.storage[k]
                ELSE [value |-> "", master |-> DEFAULT_MASTER_REGION_OF_NEW_KEY, counter |-> 0]
      new(k) == IF txn.new_master # -1
                THEN [old(k) EXCEPT !.master = txn.new_master, !.counter = @ + 1]
                ELSE [old(k) EXCEPT !.value = txn.write_set[k]]
  IN  IF w.states[txn.id].status = "COMMITTED"
      THEN Enter([w EXCEPT !.storage =
                    [k \in (DOMAIN @) \cup written |->
                       IF k \in written THEN new(k) ELSE @[k]]], txn.id, "FINISH")
      ELSE Enter(w, txn.id, "FINISH")

\* Worker::Finish
Finish(w, txn) ==
  [w EXCEPT !.completed = Append(@, [id |-> txn.id, status |-> w.states[txn.id].status,
                                     partition |-> 0,
                                     involved_partitions |-> txn.involved_partitions]),
            !.states = [i \in (DOMAIN @) \ {txn.id} |-> @[i]]]

\* Worker::AdvanceTransaction: as far as the txn can go
AdvanceTransaction(w, txn, outcome) ==
  IF w.states[txn.id].phase = "EXECUTE"
  THEN Finish(Commit(Execute(w, txn, outcome), txn), txn)
  ELSE w

WorkerState == [states |-> txn_states, storage |-> worker_storage,
                completed |-> completed_subtxns, phases |-> phases]

SetWorkerState(w) ==
  /\ txn_states' = w.states
  /\ worker_storage' = w.storage
  /\ completed_subtxns' = w.completed
  /\ phases' = w.phases

WorkerInit ==
  /\ txn_states = << >>
  /\ worker_storage = [k \in LocalKeys |-> [value |-> "old", master |-> 0, counter |-> 0]]
  /\ completed_subtxns = <<>>
  /\ phases = [id \in { txn.id : txn \in WorkerTxns } |-> <<>>]
  /\ remote_reads = {}
  /\ dispatched = {}
  /\ early_remote_reads = [id \in { txn.id : txn \in WorkerTxns } |-> <<>>]
  /\ txn_reads = [id \in { txn.id : txn \in WorkerTxns } |-> {}]
  /\ reads_sent = {}

\* Worker::ProcessWorkerRequest and AdvanceTransaction: the scheduler hands
\* over a txn that holds its locks; the other involved partitions send it
\* one remote read each.
WorkerRequest(txn, outcome) ==
  /\ txn.id \notin dispatched
  /\ \A id \in DOMAIN txn_states : LocalKeysOf(WorkerTxn(id)) \cap LocalKeysOf(txn) = {}
  /\ dispatched' = dispatched \cup {txn.id}
  /\ remote_reads' = remote_reads \cup { <<txn.id, p>> : p \in txn.involved_partitions \ {0} }
  /\ LET created == [WorkerState EXCEPT
                       !.states = [i \in (DOMAIN @) \cup {txn.id} |->
                                     IF i = txn.id THEN NewTransactionState ELSE @[i]],
                       !.phases[txn.id] = <<<<"READ_LOCAL_STORAGE", 0>>>>]
     IN  SetWorkerState(AdvanceTransaction(ReadLocalStorage(created, txn), txn, outcome))
  /\ UNCHANGED <<early_remote_reads, txn_reads, reads_sent>>
  /\ UNCHANGED notWorkerVars

\* Worker::ProcessRemoteReadResult and AdvanceTransaction
WorkerRemoteReadResult(msg, outcome) ==
  /\ msg \in remote_reads
  /\ remote_reads' = remote_reads \ {msg}
  /\ LET id == msg[1]
         applied_read ==
           IF id \in DOMAIN txn_states /\ txn_states[id].phase = "WAIT_REMOTE_READ"
           THEN LET counted == [WorkerState EXCEPT !.states[id].remote_reads_waiting_on = @ - 1]
                IN  IF counted.states[id].remote_reads_waiting_on = 0
                    THEN Enter(counted, id, "EXECUTE")
                    ELSE counted
           ELSE WorkerState
     IN  SetWorkerState(IF id \in DOMAIN applied_read.states
                        THEN AdvanceTransaction(applied_read, WorkerTxn(id), outcome)
                        ELSE applied_read)
  /\ UNCHANGED <<dispatched, early_remote_reads, txn_reads, reads_sent>>
  /\ UNCHANGED notWorkerVars

WorkerNext ==
  \/ \E txn \in WorkerTxns : \E outcome \in {"COMMITTED", "ABORTED"} : WorkerRequest(txn, outcome)
  \/ \E msg \in remote_reads : \E outcome \in {"COMMITTED", "ABORTED"} :
       WorkerRemoteReadResult(msg, outcome)

\* The worker state together with the read sets of the txns
WorkerStateWithReads == WorkerState @@ [reads |-> txn_reads]

\* Worker::ProcessRemoteReadResult: the read of partition p is applied to a
\* txn in WAIT_REMOTE_READ
ProcessRemoteReadResult(w, id, p) ==
  IF id \in DOMAIN w.states /\ w.states[id].phase = "WAIT_REMOTE_READ"
  THEN LET counted == [w EXCEPT !.states[id].remote_reads_waiting_on = @ - 1,
                                !.reads[id] = @ \cup {p}]
       IN  IF counted.states[id].remote_reads_waiting_on = 0
           THEN Enter(counted, id, "EXECUTE")
           ELSE counted
  ELSE w

\* A state init that leaves the early remote reads in the holder
ForgetEarlyRemoteReads(w, id, early) == w

\* The early remote reads of the holder, applied one after the other
RECURSIVE ReplayEarlyRemoteReads(_, _, _)
ReplayEarlyRemoteReads(w, id, early) ==
  IF early = <<>> THEN w
  ELSE ReplayEarlyRemoteReads(ProcessRemoteReadResult(w, id, Head(early)), id, Tail(early))

\* A worker of another involved partition reads its local keys and
\* broadcasts them (READ_LOCAL_STORAGE at partition p)
RemoteReadSent(txn, p) ==
  /\ p \in txn.involved_partitions \ {0}
  /\ <<txn.id, p>> \notin reads_sent
  /\ reads_sent' = reads_sent \cup {<<txn.id, p>>}
  /\ remote_reads' = remote_reads \cup {<<txn.id, p>>}
  /\ UNCHANGED <<txn_states, worker_storage, completed_subtxns, phases, dispatched,
                 early_remote_reads, txn_reads>>
  /\ UNCHANGED notWorkerVars

\* The scheduler gets a RemoteReadResult: it goes to the worker of the txn,
\* or into the holder when the txn has not been dispatched
SchedulerRemoteReadResult(msg, outcome) ==
  /\ msg \in remote_reads
  /\ remote_reads' = remote_reads \ {msg}
  /\ IF msg[1] \in dispatched
       THEN LET w == ProcessRemoteReadResult(WorkerStateWithReads, msg[1], msg[2])
                advanced == IF msg[1] \in DOMAIN w.states
                              THEN AdvanceTransaction(w, WorkerTxn(msg[1]), outcome) ELSE w
            IN  /\ SetWorkerState(advanced)
                /\ txn_reads' = advanced.reads
                /\ UNCHANGED early_remote_reads
       ELSE /\ early_remote_reads' = [early_remote_reads EXCEPT ![msg[1]] = Append(@, msg[2])]
            /\ UNCHANGED <<txn_states, worker_storage, completed_subtxns, phases, txn_reads>>
  /\ UNCHANGED <<dispatched, reads_sent>>
  /\ UNCHANGED notWorkerVars

\* The scheduler dispatches a txn that holds its locks: the worker
\* initialises its state, reads the local keys and is given the early remote
\* reads of the holder
SchedulerDispatch(txn, outcome) ==
  /\ txn.id \notin dispatched
  /\ \A id \in DOMAIN txn_states : LocalKeysOf(WorkerTxn(id)) \cap LocalKeysOf(txn) = {}
  /\ dispatched' = dispatched \cup {txn.id}
  /\ LET created == [WorkerStateWithReads EXCEPT
                       !.states = [i \in (DOMAIN @) \cup {txn.id} |->
                                     IF i = txn.id THEN NewTransactionState ELSE @[i]],
                       !.phases[txn.id] = <<<<"READ_LOCAL_STORAGE", 0>>>>,
                       !.reads[txn.id] = {0}]
         replayed == ReplayEarlyRemoteReads(ReadLocalStorage(created, txn), txn.id,
                                            early_remote_reads[txn.id])
         advanced == AdvanceTransaction(replayed, txn, outcome)
     IN  /\ SetWorkerState(advanced)
         /\ txn_reads' = advanced.reads
  /\ UNCHANGED <<remote_reads, reads_sent, early_remote_reads>>
  /\ UNCHANGED notWorkerVars

\* A scheduler and its worker, with the remote reads of the other partitions
EarlyReadsNext ==
  \/ \E txn \in WorkerTxns : \E p \in {1, 2} : RemoteReadSent(txn, p)
  \/ \E msg \in remote_reads : \E outcome \in {"COMMITTED", "ABORTED"} :
       SchedulerRemoteReadResult(msg, outcome)
  \/ \E txn \in WorkerTxns : \E outcome \in {"COMMITTED", "ABORTED"} :
       SchedulerDispatch(txn, outcome)

(***************************************************************************)
(* TPCCExecution (part_010)                                                *)
(***************************************************************************)
\* The txns handed to Execute: the name in args[0] of the first procedure
\* ("" when there is no procedure or no argument), the number of arguments
\* and of procedures, whether the order lines / item ids have the size
\* asked for, and what the TPC-C procedure returns when it is run
TPCCTxn(name, nargs, nprocs, parts, result) ==
  [txn_name |-> name, args |-> nargs, procedures |-> nprocs, parts_ok |-> parts,
   result |-> result]

TPCCTxns ==
  { TPCCTxn("", 0, 0, TRUE, FALSE), TPCCTxn("no_such", 1, 1, TRUE, TRUE),
    TPCCTxn("new_order", 7, 11, TRUE, TRUE), TPCCTxn("new_order", 7, 11, TRUE, FALSE),
    TPCCTxn("new_order", 6, 11, TRUE, TRUE), TPCCTxn("new_order", 7, 11, FALSE, TRUE),
    TPCCTxn("payment", 9, 1, TRUE, TRUE), TPCCTxn("payment", 9, 1, TRUE, FALSE),
    TPCCTxn("payment", 8, 1, TRUE, TRUE),
    TPCCTxn("order_status", 5, 1, TRUE, TRUE), TPCCTxn("order_status", 4, 1, TRUE, TRUE),
    TPCCTxn("deliver", 7, 1, TRUE, TRUE), TPCCTxn("deliver", 7, 1, TRUE, FALSE),
    TPCCTxn("stock_level", 4, 2, TRUE, TRUE), TPCCTxn("stock_level", 4, 2, FALSE, TRUE),
    TPCCTxn("stock_level", 4, 1, TRUE, FALSE) }

Aborted(reason) == [status |-> "ABORTED", abort_reason |-> reason, applied |-> FALSE, ran |-> FALSE]

\* The end of Execute, after the procedure returned result: the block that
\* sets ABORTED follows the if without an else, so it runs in both cases
Outcome(result) ==
  [status |-> "ABORTED", abort_reason |-> "Aborted by a TPC-C txn", applied |-> result,
   ran |-> TRUE]

\* TPCCExecution::Execute: the status and abort_reason the txn ends with,
\* whether ApplyWrites was called and whether the procedure was run
TPCCExecute(txn) ==
  IF txn.procedures = 0 \/ txn.args = 0 THEN Aborted("Invalid code")
  ELSE CASE txn.txn_name = "new_order" ->
              IF txn.args # 7 \/ txn.procedures # 11
              THEN Aborted("new_order: Invalid number of arguments")
              ELSE IF ~txn.parts_ok
              THEN Aborted("new_order: Invalid number of arguments for order line")
              ELSE Outcome(txn.result)
         [] txn.txn_name = "payment" ->
              IF txn.args # 9 THEN Aborted("payment: Invalid number of arguments")
              ELSE Outcome(txn.result)
         [] txn.txn_name = "order_status" ->
              IF txn.args # 5 THEN Aborted("order_status: Invalid number of arguments")
              ELSE Outcome(txn.result)
         [] txn.txn_name = "deliver" ->
              IF txn.args # 7 THEN Aborted("deliver: Invalid number of arguments")
              ELSE Outcome(txn.result)
         [] txn.txn_name = "stock_level" ->
              IF txn.args # 4 \/ txn.procedures # 2
              THEN Aborted("stock_level: Invalid number of arguments")
              ELSE IF ~txn.parts_ok THEN Aborted("stock_level: Invalid number of items")
              ELSE Outcome(txn.result)
         [] OTHER -> Aborted("Unknown procedure name")

TPCCInit ==
  /\ tpcc_storage = <<>>
  /\ tpcc_txns = <<>>

\* A call of Execute; the writes of the txn are those of its place in the
\* run
TPCCExecutionExecute(txn) ==
  /\ Len(tpcc_txns) < MaxExecutions
  /\ LET r == TPCCExecute(txn)
         n == Len(tpcc_txns) + 1
     IN  /\ tpcc_txns' = Append(tpcc_txns, [txn |-> txn, status |-> r.status,
                                            abort_reason |-> r.abort_reason, ran |-> r.ran])
         /\ tpcc_storage' = IF r.applied THEN Append(tpcc_storage, n) ELSE tpcc_storage
  /\ UNCHANGED notTpccVars

TPCCNext == \E txn \in TPCCTxns : TPCCExecutionExecute(txn)

(***************************************************************************)
(* Specifications                                                          *)
(***************************************************************************)
\* Every component but the one a specification follows stays as constructed
OthersIdle(self) ==
  /\ self # "lock" => LockInit
  /\ self # "remaster" => RemasterIdle([k \in LocalKeys |-> NotFound])
  /\ self # "sequencer" => SequencerInit
  /\ self # "paxos" => PaxosInit
  /\ self # "scheduler" =>
     /\ sched_log = <<>>
     /\ sched_next = [r \in Replicas |-> 1]
     /\ sched_locks = [r \in Replicas |-> [lt |-> << >>, nlw |-> << >>]]
     /\ sched_running = [r \in Replicas |-> {}]
     /\ commit_order = [r \in Replicas |-> <<>>]
  /\ self # "join" => JoinInit
  /\ self # "server" => ServerInit
  /\ self # "forwarder" => ForwarderInit
  /\ self # "asyncLog" =>
     /\ start_from = 0
     /\ log_ = << >>
     /\ next_ = 0
     /\ log_inserts = <<>>
     /\ log_out = <<>>
     /\ log_last = "constructed"
  /\ self # "interleaver" =>
     /\ il_inputs = 0
     /\ il = 0
     /\ il_arrived = {}
  /\ self # "worker" => WorkerInit
  /\ self # "tpcc" => TPCCInit

LockSpecInit == LockInit /\ OthersIdle("lock")

LockSpec == LockSpecInit /\ [][LockNext]_vars

LockAtomicSpec == LockSpecInit /\ [][LockAtomicNext]_vars

\* Every txn reported ready is in the end passed to ReleaseLocks
LockAtomicFairSpec ==
  /\ LockAtomicSpec
  /\ \A t \in TxnIds : WF_vars(\E txn \in SubmittedAs(t) : ReleaseReadyTxn(txn))

\* The remaster manager alone; the lock manager stays idle
RemasterSpecInit == RemasterInit /\ OthersIdle("remaster")

RemasterSpec == RemasterSpecInit /\ [][RemasterNext]_vars

\* The sequencers alone
SequencerSpecInit == SequencerInit /\ OthersIdle("sequencer")

SequencerSpec == SequencerSpecInit /\ [][SequencerNext]_vars

\* The sequencers of a build with ENABLE_REPLICATION_DELAY
SequencerDelaySpec == SequencerSpecInit /\ [][SequencerDelayNext]_vars

\* The ticker keeps ticking and rand() does not keep a delayed batch forever
SequencerDelayFairSpec ==
  /\ SequencerSpecInit
  /\ [][SequencerDelayNext]_vars
  /\ \A m \in Sequencers :
       WF_vars(\E delay \in BOOLEAN : SeqTickDelay(m, 1..Len(delayed_batches[m]), delay))

\* One Paxos group alone
PaxosSpecInit == PaxosInit /\ OthersIdle("paxos")

PaxosSpec == PaxosSpecInit /\ [][PaxosNext]_vars

\* The schedulers of the replicas of one partition, fed the same log
SchedulerSpecInit == SchedulerInit /\ OthersIdle("scheduler")

SchedulerSpec == SchedulerSpecInit /\ [][SchedulerNext]_vars

\* The join of multi-home txns at the schedulers of the partitions
JoinSpecInit == JoinInit /\ OthersIdle("join")

JoinSpec == JoinSpecInit /\ [][JoinNext]_vars

HolderSpec == JoinSpecInit /\ [][HolderNext]_vars

\* All members alive, every message in flight delivered
PaxosFairSpec ==
  /\ PaxosSpecInit
  /\ [][PaxosNext]_vars
  /\ WF_vars(\E msg \in net : HandleForwarded(msg))
  /\ WF_vars(\E msg \in net : HandleAccept(msg))
  /\ WF_vars(\E msg \in net : HandleAccepted(msg))
  /\ WF_vars(\E msg \in net : HandleCommit(msg))

\* One server alone
ServerSpecInit == ServerInit /\ OthersIdle("server")

ServerSpec == ServerSpecInit /\ [][ServerNext]_vars

\* The forwarders of the machines
ForwarderSpecInit == ForwarderInit /\ OthersIdle("forwarder")

ForwarderSpec == ForwarderSpecInit /\ [][ForwarderNext]_vars

\* One AsyncLog and its callers
AsyncLogSpecInit == AsyncLogInit /\ OthersIdle("asyncLog")

AsyncLogSpec == AsyncLogSpecInit /\ [][AsyncLogStep]_vars

\* The interleaver of one replica
InterleaverSpecInit == InterleaverInit /\ OthersIdle("interleaver")

InterleaverSpec == InterleaverSpecInit /\ [][InterleaverNext]_vars

\* The worker of one partition
WorkerSpecInit == WorkerInit /\ OthersIdle("worker")

WorkerSpec == WorkerSpecInit /\ [][WorkerNext]_vars

\* Every remote read sent reaches the worker
WorkerFairSpec ==
  /\ WorkerSpecInit
  /\ [][WorkerNext]_vars
  /\ WF_vars(\E msg \in remote_reads : \E outcome \in {"COMMITTED", "ABORTED"} :
               WorkerRemoteReadResult(msg, outcome))

\* The scheduler and the worker of one partition; remote reads may come
\* before the txn is dispatched
EarlyReadsSpec == WorkerSpecInit /\ [][EarlyReadsNext]_vars

\* TPCCExecution and its callers
TPCCSpecInit == TPCCInit /\ OthersIdle("tpcc")

TPCCSpec == TPCCSpecInit /\ [][TPCCNext]_vars

(***************************************************************************)
(* Properties of the lock manager                                        *)
(***************************************************************************)
Holders(k) == Entry(lock_table, k).holders
QueueIds(k) == [i \in 1..Len(Entry(lock_table, k).waiter_queue) |->
                  Entry(lock_table, k).waiter_queue[i][1]]

Once(keys, ready) == [reg |-> 1, keys |-> keys, req |-> keys, twice |-> FALSE, ready |-> ready]

\* txn1 (100, reads A), txn2 (200, writes A) and txn3 (300, reads A) were
\* submitted in this order through RegisterTxnAndAcquireLocks, nothing else
\* was: txn1 was reported ready, txn2 and txn3 wait in this order.
SubmittedC1 ==
  /\ DOMAIN lock_table = {"A"}
  /\ Holders("A") = {100}
  /\ QueueIds("A") = <<200, 300>>
  /\ req_mode["A"] = [t \in TxnIds |-> IF t = 200 THEN "WRITE" ELSE "READ"]
  /\ hist = [t \in TxnIds |-> Once({"A"}, IF t = 100 THEN 1 ELSE 0)]

\* C1: with txn1 reading A, txn2 writing A and txn3 reading A submitted in
\* this order, ReleaseLocks(txn1) reports exactly txn2 ready and makes txn2
\* the only holder of A; txn3 is not reported and does not hold A with txn2.
C1_ReleaseReadyOnlyWriter ==
  [][(SubmittedC1 /\ DoReleaseLocks(100, Txn(100, {"A"}, {})))
       => /\ hist'[200].ready = 1
          /\ hist'[300].ready = 0
          /\ lock_table'["A"].holders = {200}]_vars

\* C2: for every key, a holder that asked for the key in WRITE mode is the
\* only holder of the key.
C2_WriteHolderIsAlone ==
  \A k \in DOMAIN lock_table : \A t \in lock_table[k].holders :
    req_mode[k][t] = "WRITE" => lock_table[k].holders = {t}

\* C3: for every lock table entry, the holder set is not empty when the
\* mode is READ or WRITE, and has exactly one element when the mode is WRITE.
C3_HoldersMatchMode ==
  \A k \in DOMAIN lock_table :
    /\ lock_table[k].mode # "UNLOCKED" => lock_table[k].holders # {}
    /\ lock_table[k].mode = "WRITE" => Cardinality(lock_table[k].holders) = 1

\* A key held in WRITE mode with a waiter behind the holder, and a key that
\* went back to UNLOCKED after its last holder released it.
C3_Witness ==
  /\ \E k \in DOMAIN lock_table :
       lock_table[k].mode = "WRITE" /\ lock_table[k].waiters # {}
  /\ \E k \in DOMAIN lock_table :
       lock_table[k].mode = "UNLOCKED" /\ \E t \in TxnIds : hist[t].ready > 0

\* The keys a txn id is known to have in this partition: those of its
\* RegisterTxn calls and those its AcquireLocks calls asked for.
ItsKeys(h, t) == h[t].keys \cup h[t].req

\* The calls made for t follow the protocol: at most one RegisterTxn, and
\* AcquireLocks calls that ask for each key of t at most once.
OneRegisterOneRequestPerKey(h, t) ==
  /\ h[t].reg <= 1
  /\ ~h[t].twice
  /\ h[t].reg = 1 => h[t].req \subseteq h[t].keys

\* C4: AcquireLocks(txn) returns true if and only if, after the call, the txn
\* holds the lock on every one of its local keys; it does not return true for
\* a txn that waits on a key, whether or not RegisterTxn was called before.
C4_AcquireTrueIffAllHeld ==
  [][\A txn \in Transactions :
       (/\ DoAcquireLocks(txn.id, txn)
        /\ ExtractKeys(txn) # <<>>
        /\ OneRegisterOneRequestPerKey(hist', txn.id))
         => LET ret == AcquireLocks(Now, txn.id, txn).ret
                held(k) == k \in DOMAIN lock_table' /\ txn.id \in lock_table'[k].holders
            IN /\ ret => \A k \in ItsKeys(hist', txn.id) : held(k)
               /\ (hist'[txn.id].reg = 1 /\ \A k \in ItsKeys(hist', txn.id) : held(k))
                    => ret]_vars

\* C5: a txn with local keys that is covered by one RegisterTxn call and by
\* AcquireLocks calls that ask for each of its keys once, in any order, is
\* reported ready at most once, and it has been reported exactly when it is
\* registered and holds every one of its local keys.
C5_ReadyOnceWhenAllHeld ==
  \A t \in TxnIds : OneRegisterOneRequestPerKey(hist, t) =>
    /\ hist[t].ready <= 1
    /\ hist[t].ready = 1 <=>
         /\ hist[t].reg = 1
         /\ hist[t].keys # {}
         /\ \A k \in hist[t].keys : t \in Holders(k)

(***************************************************************************)
(* Properties of the remaster manager                                    *)
(***************************************************************************)
\* The counter CheckCounters compares with: 0 for a key not in storage
StorageCounter(k) == IF storage[k].found THEN storage[k].counter ELSE 0

Declared(t, k) == At(t).master_metadata[k].counter

Queued == UNION {Range(blocked_queue[id]) : id \in Masters}

NothingInFlight ==
  notify = {} /\ \A t \in TxnReplicaIds : status[t] # "ADMITTED"

\* C6: storage has A with master 0 and counter 1; t1 (txn 10, A:{0,2}) and
\* the remaster txn (txn 11, A:{0,1}, new_master 0) are the only txns that
\* entered, and none was withdrawn. Neither waits forever: once nothing is in
\* flight any more (no admitted txn left to commit, no remaster left to
\* announce), both have committed.
C6_CounterAheadBothCommit ==
  (/\ Arrived = {10, 11}
   /\ status[10] # "RELEASED" /\ status[11] # "RELEASED"
   /\ NothingInFlight)
    => status[10] = "COMMITTED" /\ status[11] = "COMMITTED"

\* The verdict the set of declared counters calls for
ByKeySet(t) ==
  IF \E k \in KeysInPartition(At(t)) : Declared(t, k) < StorageCounter(k) THEN "ABORT"
  ELSE IF \E k \in KeysInPartition(At(t)) : Declared(t, k) > StorageCounter(k) THEN "WAITING"
  ELSE "VALID"

\* C7: for a txn checked against an empty wait queue, the verdict depends on
\* the set of its local keys only: ABORT if some declared counter is below
\* the storage counter, else WAITING if some is above, else VALID; a key
\* absent from storage counts as counter 0.
C7_VerdictByKeySet ==
  (/\ last.call = "VerifyMaster"
   /\ last.verdict # "FATAL"
   /\ last.verdict = "WAITING" =>
        blocked_queue[LocalLogMachineId(At(last.txn))] = <<last.txn>>)
    => last.verdict = ByKeySet(last.txn)

\* C8: every txn RemasterOccured returns in unblocked has, for each of its
\* local keys, a declared counter equal to the storage counter (so none
\* whose counter for the remastered key is above the new counter), and
\* every txn it returns in should_abort has a local key whose declared
\* counter is below storage.
C8_UnblockedMatchStorage ==
  (last.call = "RemasterOccured" /\ ~fatal) =>
    /\ \A t \in Range(last.unblocked) :
         /\ \A k \in KeysInPartition(At(t)) : Declared(t, k) = StorageCounter(k)
         /\ last.key \in KeysInPartition(At(t)) =>
              ~(Declared(t, last.key) > StorageCounter(last.key))
    /\ \A t \in Range(last.should_abort) :
         \E k \in KeysInPartition(At(t)) : Declared(t, k) < StorageCounter(k)

\* RemasterOccured("A", 2) returned txn 10 (A:2) as unblocked and txn 12
\* (A:1) as should_abort, and left txn 18 (A:3) waiting.
C8_Witness ==
  /\ last.call = "RemasterOccured" /\ last.key = "A" /\ ~fatal
  /\ StorageCounter("A") = 2
  /\ last.unblocked = <<10>>
  /\ last.should_abort = <<12>>
  /\ blocked_queue[0] = <<18>>

\* The remaster of key k that t declared has occurred, and so have the
\* remasters of its other keys
CaughtUp(t, k) ==
  /\ k \in KeysInPartition(At(t))
  /\ Declared(t, k) = StorageCounter(k)
  /\ \A j \in KeysInPartition(At(t)) : Declared(t, j) <= StorageCounter(j)

\* A remaster of key k committed and RemasterOccured was called for it
Announced(k) ==
  /\ k \notin notify
  /\ \E r \in all_txns :
       r.remaster /\ k \in KeysInPartition(r) /\ status[r.id] = "COMMITTED"

\* Whatever a txn in a queue still waits for is on its way: the remaster txn
\* that raises the key from its storage counter has arrived
AwaitedRemastersArrived ==
  \A t \in Queued : \A k \in KeysInPartition(At(t)) :
    Declared(t, k) > StorageCounter(k) =>
      \E r \in all_txns :
        /\ r.remaster /\ k \in KeysInPartition(r)
        /\ status[r.id] \notin {"NEW", "RELEASED"}
        /\ Declared(r.id, k) = StorageCounter(k)

\* C9: a txn waiting in a queue whose declared counter for k is c+1 is not
\* left in the queue forever after key k went from c to c+1 and
\* RemasterOccured(k, c+1) was called: once the remasters of its other keys
\* occurred, the remasters the queues wait for have arrived and nothing is
\* in flight any more, it has been returned.
C9_NotLeftInQueueForever ==
  (NothingInFlight /\ ~fatal /\ AwaitedRemastersArrived) =>
    \A t \in Queued : \A k \in LocalKeys : ~(Announced(k) /\ CaughtUp(t, k))

RECURSIVE Returned(_)
\* The run of txns at the head of q that no longer wait
Returned(q) ==
  IF q = <<>> \/ CheckCounters(storage, At(Head(q))) = "WAITING" THEN <<>>
  ELSE <<Head(q)>> \o Returned(Tail(q))

IsValid(t) == CheckCounters(storage, At(t)) = "VALID"

\* C10: ReleaseTransaction(t) removes t from its queue, at the head or in the
\* body; t is in neither returned list; when t was the head, the heads it
\* exposes are re-evaluated one after the other, those that are VALID are
\* returned in unblocked in arrival order and the queue is left with a head
\* that waits; when t was in the body nothing else moves.
C10_ReleaseReevaluatesHead ==
  [][\A t \in TxnReplicaIds :
       (DoReleaseTransaction(t) /\ ~fatal') =>
         /\ t \notin UNION {Range(blocked_queue'[id]) : id \in Masters}
         /\ t \notin Range(last'.unblocked) \cup Range(last'.should_abort)
         /\ \A id \in Masters :
              IF blocked_queue[id] # <<>> /\ Head(blocked_queue[id]) = t
                THEN LET old == Tail(blocked_queue[id])
                         run == Returned(old)
                     IN /\ blocked_queue'[id] = SubSeq(old, Len(run) + 1, Len(old))
                        /\ last'.unblocked = SelectSeq(run, IsValid)
                        /\ Range(last'.should_abort) = Range(run) \ Range(last'.unblocked)
                ELSE blocked_queue'[id] = Without(blocked_queue[id], t)]_vars

\* A head was released, its successor was VALID and returned in unblocked,
\* and the head after that was re-evaluated and still waits.
C10_Witness ==
  /\ last.call = "ReleaseTransaction" /\ ~fatal
  /\ Len(last.unblocked) = 1
  /\ last.unblocked[1] \notin Queued
  /\ blocked_queue[LocalLogMachineId(At(last.txn))] # <<>>

(***************************************************************************)
(* Properties of the sequencer                                             *)
(***************************************************************************)
\* The batches sequencer m has sealed, in order
SealedBy(m) == SelectSeq(sealed, LAMBDA b : b.from = m)

\* How many messages of inbox carry a sealed batch with this id
TimesReceived(inbox, id) ==
  Cardinality({i \in 1..Len(inbox) : inbox[i].kind = "SINGLE_HOME" /\ inbox[i].id = id})

\* A step in which sequencer m seals its batch
Seals(m) == batch_id_counter'[m] # batch_id_counter[m]

\* A step that puts nothing into a batch and handles no forwarded batch:
\* a tick that found the batch empty
EmptyTick == batch' = batch /\ processed' = processed

ProposalsMatchSealedBatches ==
  \A m \in Sequencers :
    /\ Len(paxos_proposed[m]) = Len(SealedBy(m))
    /\ \A i \in 1..Len(SealedBy(m)) :
         /\ SealedBy(m)[i].transactions # <<>>
         /\ \A x \in Machines : TimesReceived(interleaver[x], SealedBy(m)[i].id) = 1

TickStep ==
  /\ EmptyTick => UNCHANGED <<batch_id_counter, paxos_proposed, interleaver, sealed>>
  /\ \A m \in Sequencers :
       Seals(m) =>
         /\ batch[m] # <<>>
         /\ batch'[m] = <<>>
         /\ paxos_proposed'[m] = Append(paxos_proposed[m], m[2])
         /\ \A o \in Sequencers \ {m} : paxos_proposed'[o] = paxos_proposed[o]
         /\ Len(sealed') = Len(sealed) + 1
         /\ sealed'[Len(sealed')].transactions = batch[m]
         /\ \A x \in Machines :
              /\ Len(interleaver'[x]) = Len(interleaver[x]) + 1
              /\ interleaver'[x][Len(interleaver'[x])].id = sealed'[Len(sealed')].id
              /\ interleaver'[x][Len(interleaver'[x])].kind = "SINGLE_HOME"

\* C11: a tick that finds the batch empty proposes nothing, sends nothing and
\* leaves the batch counter alone; a tick that finds it non-empty makes one
\* proposal of the local partition to the local Paxos, sends the sealed batch
\* to the interleaver of every machine once and starts an empty batch; so a
\* sequencer has proposed as often as it has sealed a non-empty batch.
C11_TickSealsOnePerProposal == []ProposalsMatchSealedBatches /\ [][TickStep]_vars

\* One txn was forwarded, a tick sealed it and another tick found nothing
C11_Witness ==
  /\ seq_events = 3
  /\ Len(sealed) = 1
  /\ processed = {}
  /\ \A m \in Sequencers : batch[m] = <<>>
  /\ Len(sealed[1].transactions) = 1

\* C12: with machine ids below kMaxNumMachines, no two sealed batches of any
\* sequencers carry the same batch id; the ids one sequencer assigns are
\* counter * kMaxNumMachines + its machine id and strictly increase; and its
\* batches carry the same-origin positions 0, 1, 2, ... with no gap or repeat.
C12_BatchIdsUniqueAndOrdered ==
  /\ \A m \in Machines : LocalMachineId(m) < kMaxNumMachines
  /\ \A i, j \in 1..Len(sealed) : i # j => sealed[i].id # sealed[j].id
  /\ \A m \in Sequencers :
       \A i \in 1..Len(SealedBy(m)) :
         /\ SealedBy(m)[i].id = i * kMaxNumMachines + LocalMachineId(m)
         /\ SealedBy(m)[i].same_origin_position = i - 1
         /\ i > 1 => SealedBy(m)[i - 1].id < SealedBy(m)[i].id

\* One sequencer has sealed two batches and the other one
C12_Witness ==
  /\ Len(SealedBy(<<0, 1>>)) = 2
  /\ Len(SealedBy(<<1, 0>>)) = 1

\* Where the txns sequencer m has put into its batches are: <<0, i>> is
\* place i of the batch it is filling, <<j, i>> place i of sealed batch j
Places(m) ==
  {<<0, i>> : i \in 1..Len(batch[m])} \cup
  UNION {{<<j, i>> : i \in 1..Len(sealed[j].transactions)} :
           j \in {x \in 1..Len(sealed) : sealed[x].from = m}}

PutAt(m, p) == IF p[1] = 0 THEN batch[m][p[2]] ELSE sealed[p[1]].transactions[p[2]]

\* The lock-only sub-txns of txn id that sequencer m has put into a batch
SubTxns(m, id) ==
  {p \in Places(m) : PutAt(m, p).type = "LOCK_ONLY" /\ PutAt(m, p).id = id}

KeysOf(txn) == DOMAIN txn.read_set \cup DOMAIN txn.write_set

MasteredAt(txn, r) == {k \in KeysOf(txn) : txn.master_metadata[k].master = r}

\* The sub-txn at place p holds exactly the entries of parent mastered at r
ExactlyEntriesOf(sub, parent, r) ==
  /\ DOMAIN sub.read_set = DOMAIN parent.read_set \cap MasteredAt(parent, r)
  /\ DOMAIN sub.write_set = DOMAIN parent.write_set \cap MasteredAt(parent, r)
  /\ DOMAIN sub.master_metadata = MasteredAt(parent, r)
  /\ \A k \in DOMAIN sub.read_set : sub.read_set[k] = parent.read_set[k]
  /\ \A k \in DOMAIN sub.write_set : sub.write_set[k] = parent.write_set[k]
  /\ \A k \in DOMAIN sub.master_metadata : sub.master_metadata[k] = parent.master_metadata[k]

Handled(m) == {b \in ForwardedBatches : <<m, b.id>> \in processed}

ParentsOf(b) == {b.transactions[i] : i \in 1..Len(b.transactions)}

\* C13: for every txn of a MULTI_HOME batch a sequencer of region r has
\* handled, the sequencer has put into its batch a LOCK_ONLY sub-txn with the
\* parent's id exactly when the parent has a key mastered at r, and that
\* sub-txn holds exactly the parent's read-set, write-set and metadata
\* entries mastered at r (a batch of another type leaves none); once the sequencers of all regions have handled
\* the batch, every key of the parent is in exactly one sub-txn.
C13_LockOnlyPartitionsParent ==
  /\ \A m \in Sequencers : \A b \in Handled(m) : \A parent \in ParentsOf(b) :
       IF b.transaction_type = "MULTI_HOME"
         THEN /\ Cardinality(SubTxns(m, parent.id)) =
                   IF MasteredAt(parent, m[1]) # {} THEN 1 ELSE 0
              /\ \A p \in SubTxns(m, parent.id) :
                   ExactlyEntriesOf(PutAt(m, p), parent, m[1])
         ELSE SubTxns(m, parent.id) = {}
  /\ \A b \in ForwardedBatches :
       (b.transaction_type = "MULTI_HOME" /\ \A m \in Sequencers : b \in Handled(m)) =>
         \A parent \in ParentsOf(b) : \A k \in KeysOf(parent) :
           Cardinality({<<m, p>> \in UNION {{m2} \X SubTxns(m2, parent.id) : m2 \in Sequencers} :
                          k \in KeysOf(PutAt(m, p))}) = 1

\* Both regions have handled the batch of txns 7 and 8: txn 7 has a sub-txn
\* at each region, txn 8 none at region 1
C13_Witness ==
  /\ \A m \in Sequencers : <<m, 500>> \in processed
  /\ SubTxns(<<0, 1>>, 7) # {} /\ SubTxns(<<1, 0>>, 7) # {}
  /\ SubTxns(<<0, 1>>, 8) # {} /\ SubTxns(<<1, 0>>, 8) = {}

(***************************************************************************)
(* Properties of Paxos                                                     *)
(***************************************************************************)
\* The OnCommit calls made at machine m, as a set of places
Reports(m) == 1..Len(on_commit[m])
SlotOf(m, i) == on_commit[m][i][1]
ValueOf(m, i) == on_commit[m][i][2]

\* How often value v is in the sequence of values vs
Times(vs, v) == Cardinality({i \in 1..Len(vs) : vs[i] = v})

ProposedSeq == [i \in 1..Len(proposes) |-> proposes[i].value]

\* C14: any two OnCommit calls for one slot, at two members or at one, carry
\* the same value, and that value was the argument of a Propose.
C14_AgreementAndValidity ==
  \A m1, m2 \in PaxosMachines : \A i \in Reports(m1) : \A j \in Reports(m2) :
    /\ SlotOf(m1, i) = SlotOf(m2, j) => ValueOf(m1, i) = ValueOf(m2, j)
    /\ \E k \in 1..Len(proposes) : proposes[k].value = ValueOf(m1, i)

\* Both members have reported two slots that hold different values
C14_Witness ==
  \A m \in PaxosMembers :
    Len(on_commit[m]) = 2 /\ ValueOf(m, 1) # ValueOf(m, 2)

\* C15: the leader gives the proposals it receives the slots 0, 1, 2, ... in
\* the order of receipt, each with the value proposed, and every member
\* reports slot k before slot k+1 with that value, whatever the order in which
\* the majorities and the Commit messages of the slots in flight complete.
C15_SlotsInReceiptOrder ==
  /\ next_empty_slot = Len(received)
  /\ \A s \in DOMAIN proposals[elected_leader] :
       s < next_empty_slot /\ proposals[elected_leader][s].value = received[s + 1]
  /\ \A m \in PaxosMembers : \A i \in Reports(m) :
       /\ SlotOf(m, i) = i - 1
       /\ i <= Len(received) /\ ValueOf(m, i) = received[i]

\* Slot 1 reached its majority and its Commit a member before slot 0 did:
\* the member holds slot 1 committed and has reported nothing
C15_Witness ==
  /\ 0 \in DOMAIN accepted_from /\ ~IsQuorum(accepted_from[0])
  /\ \E m \in PaxosMembers :
       /\ 1 \in DOMAIN proposals[m] /\ proposals[m][1].is_committed
       /\ on_commit[m] = <<>>

\* Nothing of Paxos is in flight or under way
PaxosQuiet == net = {}

\* C16: a machine outside the member list keeps no proposal, is sent no
\* Paxos message and never reports a commit; a proposal made at a machine
\* that is not the leader reaches the leader, and once nothing is in
\* flight every member has reported every proposal made, wherever it was made.
C16_ForwardedAndMembersOnly ==
  /\ \A m \in PaxosMachines \ PaxosMembers :
       /\ proposals[m] = NoProposals
       /\ on_commit[m] = <<>>
       /\ \A msg \in net : msg.to # m
  /\ PaxosQuiet =>
       /\ Len(received) = Len(proposes)
       /\ \A m \in PaxosMembers :
            /\ Len(on_commit[m]) = Len(proposes)
            /\ \A v \in {proposes[k].value : k \in 1..Len(proposes)} :
                 Times([i \in Reports(m) |-> ValueOf(m, i)], v) = Times(ProposedSeq, v)

\* A proposal made at the other member and one made at the outsider are
\* both reported by every member
C16_Witness ==
  /\ PaxosQuiet
  /\ \E i, j \in 1..Len(proposes) :
       proposes[i].at = "outsider" /\ proposes[j].at = "m1"
  /\ \A m \in PaxosMembers : Len(on_commit[m]) = 2

ExactlyOnce ==
  /\ Len(received) <= Len(proposes)
  /\ \A v \in {proposes[k].value : k \in 1..Len(proposes)} :
       Times(received, v) <= Times(ProposedSeq, v)
  /\ \A m \in PaxosMembers :
       /\ Len(on_commit[m]) <= Len(received)
       /\ \A i, j \in Reports(m) : i # j => SlotOf(m, i) # SlotOf(m, j)
       /\ \A i \in Reports(m) : ValueOf(m, i) = received[SlotOf(m, i) + 1]

AllReported == \A m \in PaxosMembers : Len(on_commit[m]) = Len(proposes)

\* C17: with every message delivered, every member eventually reports every
\* proposal made, and each proposal takes exactly one slot: n proposals give
\* n reported slots at every member, none lost and none twice.
C17_EveryProposalCommittedOnce == []ExactlyOnce /\ []<>AllReported

\* The same value proposed twice takes two slots at every member
C17_Witness ==
  /\ Len(proposes) = 2 /\ proposes[1].value = proposes[2].value
  /\ \A m \in PaxosMembers : Len(on_commit[m]) = 2

(***************************************************************************)
(* Properties of the scheduler                                             *)
(***************************************************************************)
\* Txn a committed before txn b at replica r
CommittedBefore(r, a, b) ==
  \E i, j \in DOMAIN commit_order[r] :
    i < j /\ commit_order[r][i] = a /\ commit_order[r][j] = b

\* Two txns of the log that touch a common key of the partition, one of them
\* writing it
Conflict(a, b) ==
  /\ a # b
  /\ \E k \in LocalKeys :
       \/ k \in LoggedTxn(a).write_set /\ k \in LoggedTxn(b).read_set \cup LoggedTxn(b).write_set
       \/ k \in LoggedTxn(b).write_set /\ k \in LoggedTxn(a).read_set \cup LoggedTxn(a).write_set

\* C18: two txns that conflict commit in the same order at every replica fed
\* the same interleaved log, whatever the pace of each replica.
C18_SameCommitOrderAtReplicas ==
  \A r1, r2 \in Replicas : \A a, b \in TxnIds :
    (sched_log # <<>> /\ Conflict(a, b) /\ CommittedBefore(r1, a, b)) =>
      ~CommittedBefore(r2, b, a)

(***************************************************************************)
(* Properties of the multi-home join                                       *)
(***************************************************************************)
\* The home regions whose transaction of txn id has reached partition p
ArrivedHomes(p, id) ==
  {join_arrived[p][i][2] : i \in {j \in DOMAIN join_arrived[p] : join_arrived[p][j][1] = id}}

OriginsHandled(id) ==
  { server_subtxns[i][2] : i \in { j \in DOMAIN server_subtxns : server_subtxns[j][1] = id } }

ResponsesFor(id) == { i \in DOMAIN to_client : to_client[i].txn_id = id }

\* The request is answered once its last awaited sub-txn is handled, never
\* before and never again, with its own stream_id
AnsweredWhenComplete ==
  \A i \in DOMAIN server_requests :
    LET request == server_requests[i]
    IN  /\ Cardinality(ResponsesFor(request.id)) <= 1
        /\ server_up =>
             (ResponsesFor(request.id) # {} <=> request.involved \subseteq OriginsHandled(request.id))
        /\ \A r \in ResponsesFor(request.id) :
             /\ to_client[r].stream_id = request.stream_id
             /\ to_client[r].merged = request.involved

\* A sub-txn of a partition already counted, of a txn already answered or
\* of a txn id the server never handed out
Redundant(id, origin) ==
  \/ origin \in OriginsHandled(id)
  \/ ResponsesFor(id) # {}
  \/ \A i \in DOMAIN server_requests : server_requests[i].id # id

RedundantSubtxnChangesNothing ==
  \A id \in SubTxnIds : \A origin \in Partitions :
    (/\ server_subtxns' = Append(server_subtxns, <<id, origin>>)
     /\ Redundant(id, origin))
    => UNCHANGED <<pending_responses, completed_txns, to_client, to_forwarder, txn_id_counter>>

\* C21: the server answers each client txn request exactly once, and only
\* after it handled a completed sub-txn of every partition in
\* involved_partitions; a sub-txn of a partition already counted, of a txn
\* already answered or of an unknown txn id changes nothing and produces no
\* second response; the response carries the stream_id of the request.
C21_AnsweredOnceAfterEverySubtxn ==
  /\ []AnsweredWhenComplete
  /\ [][RedundantSubtxnChangesNothing]_vars

\* A txn of two partitions was answered after a repeated sub-txn of
\* partition 0, and a late sub-txn of partition 1 followed the response.
C21_Witness ==
  /\ server_subtxns = << <<NextTxnId(1), 0>>, <<NextTxnId(1), 0>>,
                         <<NextTxnId(1), 1>>, <<NextTxnId(1), 1>> >>
  /\ Len(to_client) = 1
  /\ to_client[1].stream_id = 11
  /\ to_client[1].merged = {0, 1}

\* The abort_reason the validation gives a txn, "" for a txn that passes
ExpectedAbortReason(txn) ==
  IF txn.read_set \cup txn.write_set = {} THEN "Txn accesses no key"
  ELSE IF txn.procedure = "remaster" /\ txn.read_set # {}
  THEN "Remaster txns should not read anything"
  ELSE IF txn.procedure = "remaster" /\ Cardinality(txn.write_set) # 1
  THEN "Remaster txns should write to 1 key"
  ELSE ""

ForwardedAs(id) == { to_forwarder[i].txn : i \in { j \in DOMAIN to_forwarder : to_forwarder[j].id = id } }

\* C22: a client txn that fails validation (no key; a remaster txn with a
\* read set; a remaster txn whose write set is not one key) is answered as a
\* completed txn with status ABORTED and the matching abort_reason, is never
\* sent to the forwarder and does not end the server process; a txn that
\* passes validation is forwarded with status NOT_STARTED.
C22_InvalidTxnAbortedNotForwarded ==
  \A i \in DOMAIN server_requests :
    LET request == server_requests[i]
        reason == ExpectedAbortReason(request.txn)
    IN  IF reason # ""
        THEN /\ server_up
             /\ ForwardedAs(request.id) = {}
             /\ \E r \in ResponsesFor(request.id) :
                  /\ to_client[r].txn.status = "ABORTED"
                  /\ to_client[r].txn.abort_reason = reason
        ELSE \E txn \in ForwardedAs(request.id) : txn.status = "NOT_STARTED"

(***************************************************************************)
(* Properties of the forwarder                                             *)
(***************************************************************************)
\* The deliveries of txn id, as <<channel, machine>>
DeliveriesOf(id) ==
  { <<"sequencer", m>> : m \in { n \in Machines :
        \E i \in DOMAIN sequencer_channel[n] : sequencer_channel[n][i].id = id } }
  \cup
  { <<"orderer", m>> : m \in { n \in Machines :
        \E i \in DOMAIN orderer_channel[n] : orderer_channel[n][i].id = id } }

DeliveredTxn(id) ==
  CHOOSE txn \in UNION { { sequencer_channel[m][i] : i \in DOMAIN sequencer_channel[m] }
                         \cup { orderer_channel[m][i] : i \in DOMAIN orderer_channel[m] }
                         : m \in Machines } : txn.id = id

StoredMaster(key) ==
  CASE key \in {"A", "B"} -> 0
    [] key \in {"C", "X"} -> 1
    [] OTHER -> DEFAULT_MASTER_REGION_OF_NEW_KEY

\* C23: a txn whose keys all have one master is typed SINGLE_HOME and
\* delivered to a sequencer of that master region only; a txn whose keys
\* have different masters is typed MULTI_HOME and delivered to the
\* multi-home orderer on the leader partition and to no sequencer; the
\* forwarded txn has a metadata entry for every key, {default master, 0} for
\* a key in no storage.
C23_ClassifiedAndRouted ==
  \A id \in DOMAIN forwarded :
    LET keys == forwarded[id].read_set \cup forwarded[id].write_set
        masters == { StoredMaster(k) : k \in keys }
        txn == DeliveredTxn(id)
    IN  /\ Cardinality(DeliveriesOf(id)) = 1
        /\ DOMAIN txn.master_metadata = keys
        /\ \A k \in keys : txn.master_metadata[k].master = StoredMaster(k)
        /\ \A k \in keys \cap {"NEW", "KEY"} : txn.master_metadata[k].counter = 0
        /\ IF Cardinality(masters) = 1
           THEN /\ txn.type = "SINGLE_HOME"
                /\ \A d \in DeliveriesOf(id) : d[1] = "sequencer" /\ d[2][1] \in masters
           ELSE /\ txn.type = "MULTI_HOME"
                /\ \A d \in DeliveriesOf(id) :
                     d[1] = "orderer" /\ d[2][2] = LeaderPartitionForMultiHomeOrdering

\* The txn that reads A and writes C went to a multi-home orderer, and the
\* txn of the new keys to a sequencer of the default region.
C23_Witness ==
  /\ Len(forwarded) = 2
  /\ forwarded[1].read_set = {"A"} /\ forwarded[1].write_set = {"C"}
  /\ forwarded[1].machine = <<0, 0>>
  /\ Len(orderer_channel[<<0, 1>>]) = 1
  /\ forwarded[2].read_set = {"NEW"}
  /\ forwarded[2].machine = <<1, 1>>
  /\ \E p \in Partitions : Len(sequencer_channel[<<0, p>>]) = 1

(***************************************************************************)
(* Properties of AsyncLog                                                  *)
(***************************************************************************)
\* The item of the first Insert call made for a position at or after the
\* cursor of that time; 0 if there was none
FirstInserted(position) ==
  LET calls == { i \in DOMAIN log_inserts : log_inserts[i][1] = position }
  IN  IF calls = {} THEN 0
      ELSE log_inserts[CHOOSE i \in calls : \A j \in calls : i <= j][2]

\* C24: whatever the order of the Insert calls, the calls of Next return the
\* items of positions start_from, start_from + 1, ... without gap or
\* repeat; HasNext is true exactly when the item of the cursor position has
\* been inserted and not consumed; an item inserted ahead of the cursor stays
\* in the log until every earlier position was consumed.
C24_DeliversInPositionOrder ==
  /\ next_ = start_from + Len(log_out)
  /\ \A i \in DOMAIN log_out :
       /\ log_out[i] # 0
       /\ log_out[i] = FirstInserted(start_from + i - 1)
  /\ HasNext([log |-> log_, next |-> next_])
       <=> (FirstInserted(next_) # 0 /\ ~(\E i \in DOMAIN log_out : log_out[i] = FirstInserted(next_)))
  /\ \A p \in LogPositions :
       (p > next_ /\ FirstInserted(p) # 0) => (p \in DOMAIN log_ /\ log_[p] = FirstInserted(p))

\* Positions 2, 1, 0 were inserted in this order and Next was called three
\* times: it returned the items of 0, 1 and 2.
C24_Witness ==
  /\ start_from = 0
  /\ log_inserts = << <<2, 12>>, <<1, 21>>, <<0, 30>> >>
  /\ log_out = <<30, 21, 12>>

(***************************************************************************)
(* Properties of the interleaver                                           *)
(***************************************************************************)
RECURSIVE InsertAll(_, _, _)
InsertAll(l, items, from) ==
  IF from > Len(items) THEN l
  ELSE InsertAll(Stored(Insert(l, from - 1, items[from])), items, from + 1)

\* The sequence the schedule gives when every log holds all its contents:
\* it is made of the contents and the ratio only
MergeOf(inputs) ==
  AdvanceLogs([local_log |-> InsertAll(EmptyLog, inputs.commits, 1),
               local_batches |-> [p \in Partitions |-> InsertAll(EmptyLog, inputs.batches[p], 1)],
               remote_log |-> InsertAll(EmptyLog, inputs.remote_batches, 1),
               turn |-> 0, emitted |-> <<>>], inputs.ratio).emitted

IsPrefix(s, t) == Len(s) <= Len(t) /\ s = [i \in 1..Len(s) |-> t[i]]

PhaseOrders ==
  { <<"READ_LOCAL_STORAGE", "EXECUTE", "COMMIT", "FINISH">>,
    <<"READ_LOCAL_STORAGE", "WAIT_REMOTE_READ", "EXECUTE", "COMMIT", "FINISH">> }

PhasesEntered(id) == [i \in DOMAIN phases[id] |-> phases[id][i][1]]

CompletedOf(id) == { i \in DOMAIN completed_subtxns : completed_subtxns[i].id = id }

WorkerPhasesInOrder ==
  \A id \in DOMAIN phases :
    /\ \E order \in PhaseOrders : IsPrefix(PhasesEntered(id), order)
    /\ \A i \in DOMAIN phases[id] :
         /\ phases[id][i][2] >= 0
         /\ phases[id][i][1] = "EXECUTE" =>
              /\ phases[id][i][2] = 0
              /\ \A p \in WorkerTxn(id).involved_partitions : <<id, p>> \notin remote_reads
    /\ id \in DOMAIN txn_states => txn_states[id].remote_reads_waiting_on >= 0
    /\ Cardinality(CompletedOf(id)) <= 1
    /\ CompletedOf(id) # {} <=> (phases[id] # <<>> /\ phases[id][Len(phases[id])][1] = "FINISH")

\* C26: a txn starts in READ_LOCAL_STORAGE and moves forward only, through
\* WAIT_REMOTE_READ if it expects remote reads, EXECUTE, COMMIT and FINISH;
\* it enters EXECUTE only with remote_reads_waiting_on = 0, after the remote
\* read of every other involved partition; remote_reads_waiting_on is never
\* below 0; every dispatched txn reaches FINISH and sends exactly one
\* CompletedSubtransaction.
C26_PhasesForwardToFinish ==
  /\ []WorkerPhasesInOrder
  /\ \A id \in { txn.id : txn \in WorkerTxns } :
       (id \in dispatched) ~> (Cardinality(CompletedOf(id)) = 1 /\ id \notin DOMAIN txn_states)

\* Txn 2 waited for the remote reads of partitions 1 and 2 and finished.
C26_Witness ==
  /\ PhasesEntered(2) = <<"READ_LOCAL_STORAGE", "WAIT_REMOTE_READ", "EXECUTE", "COMMIT", "FINISH">>
  /\ phases[2][2][2] = 2
  /\ Cardinality(CompletedOf(2)) = 1
  /\ PhasesEntered(1) = <<"READ_LOCAL_STORAGE", "EXECUTE", "COMMIT", "FINISH">>

\* The step in which the worker commits and finishes txn with this status
Finishes(txn, txn_status) ==
  completed_subtxns' = Append(completed_subtxns,
                              [id |-> txn.id, status |-> txn_status, partition |-> 0,
                               involved_partitions |-> txn.involved_partitions])

CommitEffect ==
  /\ completed_subtxns' = completed_subtxns => worker_storage' = worker_storage
  /\ \A txn \in WorkerTxns :
       /\ Finishes(txn, "ABORTED") => worker_storage' = worker_storage
       /\ Finishes(txn, "COMMITTED") =>
            /\ DOMAIN worker_storage' = DOMAIN worker_storage
            /\ \A k \in DOMAIN worker_storage :
                 IF k \in DOMAIN txn.write_set /\ KeyIsInLocalPartition(k)
                 THEN IF txn.new_master # -1
                      THEN /\ worker_storage'[k].master = txn.new_master
                           /\ worker_storage'[k].counter = worker_storage[k].counter + 1
                           /\ worker_storage'[k].value = worker_storage[k].value
                      ELSE worker_storage'[k] =
                             [worker_storage[k] EXCEPT !.value = txn.write_set[k]]
                 ELSE worker_storage'[k] = worker_storage[k]

\* C27: the worker changes storage only when it commits a txn whose status
\* after EXECUTE is COMMITTED, and only the keys of its write set that are in
\* the local partition; an aborted txn changes no record; a committed
\* remaster txn sets the master of the key to new_master and adds exactly 1
\* to its counter.
C27_CommitWritesLocalWriteSetOnly == [][CommitEffect]_vars

\* The remaster txn 3 committed after txn 2, which writes B and the remote
\* key X, and txn 1 aborted.
C27_Witness ==
  /\ Len(completed_subtxns) = 3
  /\ completed_subtxns[1].id = 2 /\ completed_subtxns[1].status = "COMMITTED"
  /\ completed_subtxns[2].id = 1 /\ completed_subtxns[2].status = "ABORTED"
  /\ completed_subtxns[3].id = 3 /\ completed_subtxns[3].status = "COMMITTED"
  /\ worker_storage = [A |-> [value |-> "old", master |-> 1, counter |-> 1],
                       B |-> [value |-> "new2", master |-> 0, counter |-> 0]]

(***************************************************************************)
(* More properties of the lock manager                                     *)
(***************************************************************************)
NoLocalKey(txn) == \A k \in txn.read_set \cup txn.write_set : ~KeyIsInLocalPartition(k)

Untouched(r) == r.lt = lock_table /\ r.nlw = num_locks_waited /\ r.ret = FALSE

\* C28: for a txn without a key in the local partition, RegisterTxn,
\* AcquireLocks and RegisterTxnAndAcquireLocks return false and leave the
\* lock table and num_locks_waited as they were, whatever the lock manager
\* holds.
C28_TxnWithoutLocalKeyChangesNothing ==
  \A txn \in Transactions :
    NoLocalKey(txn) =>
      /\ Untouched(RegisterTxn(Now, txn.id, txn))
      /\ Untouched(AcquireLocks(Now, txn.id, txn))
      /\ Untouched(RegisterTxnAndAcquireLocks(Now, txn.id, txn))

\* Txn 300 that reads only X of the other partition was registered and asked
\* for its locks while 100 holds A and 200 waits for it.
C28_Witness ==
  /\ hist[300].reg = 2
  /\ hist[300].keys = {}
  /\ num_locks_waited[300] = 0
  /\ "A" \in DOMAIN lock_table
  /\ Holders("A") = {100}
  /\ QueueIds("A") = <<200>>

\* The call that just returned: an AcquireLocks of a registered txn, or a
\* RegisterTxnAndAcquireLocks
JustAcquired(txn, r) ==
  /\ ExtractKeys(txn) # <<>>
  /\ num_calls' = num_calls + 1
  /\ lock_table' = r.lt
  /\ num_locks_waited' = r.nlw
  /\ hist'[txn.id].req = hist[txn.id].req \cup KeySet(ExtractKeys(txn))
  /\ hist'[txn.id].reg >= 1

AfterStep == [lt |-> lock_table', nlw |-> num_locks_waited']

\* The claim as stated: right after AcquireLocks(t) returned, ReleaseLocks(t)
\* followed by AcquireLocks(t) returns the same boolean.
RoundTripAfterAcquire ==
  \A txn \in Transactions :
    /\ JustAcquired(txn, AcquireLocks(Now, txn.id, txn)) /\ hist[txn.id].reg >= 1 =>
         AcquireLocks(ReleaseLocks(AfterStep, txn.id, txn), txn.id, txn).ret
           = AcquireLocks(Now, txn.id, txn).ret
    /\ JustAcquired(txn, RegisterTxnAndAcquireLocks(Now, txn.id, txn)) =>
         AcquireLocks(ReleaseLocks(AfterStep, txn.id, txn), txn.id, txn).ret
           = RegisterTxnAndAcquireLocks(Now, txn.id, txn).ret

C29_ReleaseThenAcquireRoundTrip == [][RoundTripAfterAcquire]_vars

\* txn holds the lock of each of its local keys, and no other txn holds or
\* waits for one of them
HoldsAlone(txn) ==
  /\ ExtractKeys(txn) # <<>>
  /\ num_locks_waited[txn.id] = 0
  /\ \A k \in KeySet(ExtractKeys(txn)) :
       /\ Entry(lock_table, k).holders = {txn.id}
       /\ Entry(lock_table, k).waiters = {}

\* C29 (amended): for a txn that holds the locks of all its local keys, with
\* no other txn holding or waiting for them, ReleaseLocks followed
\* immediately by RegisterTxnAndAcquireLocks on the same keys returns true
\* again, and returns no ready txn.
C29_ReleaseThenRegisterAndAcquire ==
  \A txn \in Transactions :
    HoldsAlone(txn) =>
      /\ ReleaseLocks(Now, txn.id, txn).ret = {}
      /\ RegisterTxnAndAcquireLocks(ReleaseLocks(Now, txn.id, txn), txn.id, txn).ret = TRUE

\* Txn 100 holds A and B alone while 200 and 300 have gone through the lock
\* manager.
C29_Witness ==
  /\ HoldsAlone(Txn(100, {"A"}, {"B"}))
  /\ hist[100].ready = 1
  /\ num_calls = MaxCalls

(***************************************************************************)
(* Properties of TPCCExecution                                             *)
(***************************************************************************)
\* C30: a txn whose TPC-C procedure returns success ends COMMITTED with its
\* writes applied; a txn ends ABORTED with the reason 'Aborted by a TPC-C
\* txn' only when the procedure returned failure, and then none of its
\* writes is in storage.
C30_TPCCOutcomeExclusive ==
  \A n \in DOMAIN tpcc_txns :
    LET done == tpcc_txns[n]
        written == \E i \in DOMAIN tpcc_storage : tpcc_storage[i] = n
    IN  /\ (done.ran /\ done.txn.result) => (done.status = "COMMITTED" /\ written)
        /\ (done.status = "ABORTED" /\ done.abort_reason = "Aborted by a TPC-C txn") =>
             (done.ran /\ ~done.txn.result /\ ~written)

(***************************************************************************)
(* More properties of the remaster manager                                 *)
(***************************************************************************)
\* q2 is q1 without some of its first elements
IsSuffix(q2, q1) ==
  /\ Len(q2) <= Len(q1)
  /\ q2 = SubSeq(q1, Len(q1) - Len(q2) + 1, Len(q1))

\* The txns that left the head of q1 on the way to q2
LeftHead(q1, q2) == Range(SubSeq(q1, 1, Len(q1) - Len(q2)))

\* VerifyMaster(t) put t behind the txns of its home region, or judged it on
\* its own counters when none waits there
ArrivesInOrder(t) ==
  LET id == LocalLogMachineId(At(t)) IN
  /\ \A other \in Masters \ {id} : blocked_queue'[other] = blocked_queue[other]
  /\ IF blocked_queue[id] # <<>>
       THEN /\ last'.verdict = "WAITING"
            /\ blocked_queue'[id] = Append(blocked_queue[id], t)
       ELSE /\ last'.verdict = CheckCounters(storage, At(t))
            /\ blocked_queue'[id] = IF last'.verdict = "WAITING" THEN <<t>> ELSE <<>>

\* RemasterOccured took txns from the heads of the queues only, and returned
\* those it took
LeavesFromHead ==
  /\ \A id \in Masters : IsSuffix(blocked_queue'[id], blocked_queue[id])
  /\ ~fatal' =>
       UNION {LeftHead(blocked_queue[id], blocked_queue'[id]) : id \in Masters}
         = Range(last'.unblocked) \cup Range(last'.should_abort)

\* C31: the wait queues are FIFO per home region. A txn whose home region's
\* queue is non-empty is appended at the tail and gets WAITING whatever its
\* counters are; a txn whose home region's queue is empty is judged on its
\* own counters, whatever waits in the queues of other regions; txns leave a
\* queue from the head only, in arrival order, except through
\* ReleaseTransaction.
C31_QueuesFifoPerHomeRegion ==
  [][/\ \A t \in TxnReplicaIds : DoVerifyMaster(t) => ArrivesInOrder(t)
     /\ \A k \in LocalKeys : DoRemasterOccured(k) => LeavesFromHead
     /\ (\E t \in TxnReplicaIds : DoCommit(t)) => blocked_queue' = blocked_queue]_vars

\* Txn 12 (A:{0,1}), VALID on its own counters, was put behind txn 10 of its
\* home region 0 and got WAITING, while txn 17 waits in the queue of region 1.
C31_Witness ==
  /\ last.call = "VerifyMaster" /\ last.txn = 12 /\ last.verdict = "WAITING"
  /\ CheckCounters(storage, At(12)) = "VALID"
  /\ blocked_queue[0] = <<10, 12>>
  /\ blocked_queue[1] = <<17>>

(***************************************************************************)
(* Properties of the sequencer with replication delay                      *)
(***************************************************************************)
\* The ids of the batches in delayed_batches_ of sequencer m
DelayedIds(m) == {delayed_batches[m][i].id : i \in 1..Len(delayed_batches[m])}

\* A sealed batch is at the interleavers of its own replica once; at those
\* of the other replicas it is once unless it is still in the delayed list,
\* and then it is not there
DeliveredOnceOrDelayed ==
  /\ \A m \in Sequencers :
       /\ Cardinality(DelayedIds(m)) = Len(delayed_batches[m])
       /\ DelayedIds(m) \subseteq {SealedBy(m)[i].id : i \in 1..Len(SealedBy(m))}
  /\ \A i \in 1..Len(sealed) : \A x \in Machines :
       TimesReceived(interleaver[x], sealed[i].id) =
         IF x[1] # sealed[i].from[1] /\ sealed[i].id \in DelayedIds(sealed[i].from)
           THEN 0 ELSE 1

EveryBatchEverywhere ==
  \A i \in 1..Len(sealed) : \A x \in Machines :
    TimesReceived(interleaver[x], sealed[i].id) = 1

\* C32: with replication delay enabled, each sealed single-home batch
\* reaches the interleaver of every machine exactly once: a delayed batch is
\* at once at every partition of the local replica and nowhere else while it
\* is in the delayed list, it leaves the list only by being sent to every
\* partition of every other replica, no machine gets it twice, and as long
\* as ticks go on no batch stays delayed forever.
C32_DelayedBatchEverywhereOnce ==
  []DeliveredOnceOrDelayed /\ []<>EveryBatchEverywhere

Place(inbox, id) == CHOOSE i \in 1..Len(inbox) : inbox[i].kind = "SINGLE_HOME" /\ inbox[i].id = id

\* The first batch of a sequencer was delayed and released after its second
\* batch went out: a machine of the other replica got the second before the
\* first, a machine of the local replica in the order of sealing, and a
\* third batch is still in the delayed list.
C32_Witness ==
  \E m \in Sequencers : \E x \in OtherReplicaTargets(m) : \E y \in SameReplicaTargets(m) :
    /\ Len(SealedBy(m)) = 3
    /\ DelayedIds(m) = {SealedBy(m)[3].id}
    /\ Place(interleaver[x], SealedBy(m)[2].id) < Place(interleaver[x], SealedBy(m)[1].id)
    /\ Place(interleaver[y], SealedBy(m)[1].id) < Place(interleaver[y], SealedBy(m)[2].id)

(***************************************************************************)
(* Properties of early remote reads                                        *)
(***************************************************************************)
\* The partitions whose remote read for the txn has reached the scheduler
ReadsArrived(txn) ==
  { p \in txn.involved_partitions \ {0} :
      <<txn.id, p>> \in reads_sent /\ <<txn.id, p>> \notin remote_reads }

SeqRange(q) == { q[i] : i \in 1..Len(q) }

EarlyReadsKept ==
  \A txn \in WorkerTxns :
    /\ txn.id \notin dispatched =>
         /\ SeqRange(early_remote_reads[txn.id]) = ReadsArrived(txn)
         /\ Len(early_remote_reads[txn.id]) = Cardinality(ReadsArrived(txn))
    /\ txn.id \in DOMAIN txn_states =>
         /\ txn_states[txn.id].phase = "WAIT_REMOTE_READ"
         /\ txn_states[txn.id].remote_reads_waiting_on =
              Cardinality((txn.involved_partitions \ {0}) \ ReadsArrived(txn))
         /\ txn_reads[txn.id] = {0} \cup ReadsArrived(txn)
    /\ txn.id \in dispatched =>
         /\ SeqRange(early_remote_reads[txn.id]) \subseteq ReadsArrived(txn)
         /\ Len(early_remote_reads[txn.id]) = Cardinality(SeqRange(early_remote_reads[txn.id]))
         /\ CompletedOf(txn.id) # {} <=> ReadsArrived(txn) = txn.involved_partitions \ {0}
    /\ CompletedOf(txn.id) # {} =>
         /\ txn_reads[txn.id] = txn.involved_partitions
         /\ \E order \in PhaseOrders : PhasesEntered(txn.id) = order
         /\ \A i \in DOMAIN phases[txn.id] :
              phases[txn.id][i][1] = "EXECUTE" => phases[txn.id][i][2] = 0

\* C33: a RemoteReadResult for txn t that arrives before t has been
\* dispatched to a worker is kept with t's holder and applied when t's worker
\* state is initialised; it is neither lost nor counted twice: the count of
\* reads t waits for is the number of involved partitions whose read has not
\* arrived, t executes exactly when the read of every other involved
\* partition has arrived and t has been dispatched, and its read set is then
\* the same whether the reads came before or after the dispatch.
C33_EarlyRemoteReadsReplayed == EarlyReadsKept

\* Txn 2 got the read of partition 1 before it was dispatched and that of
\* partition 2 after, and txn 4 got its only remote read early: both are
\* complete.
C33_Witness ==
  /\ PhasesEntered(2) = <<"READ_LOCAL_STORAGE", "WAIT_REMOTE_READ", "EXECUTE", "COMMIT", "FINISH">>
  /\ early_remote_reads[2] = <<1>>
  /\ txn_reads[2] = {0, 1, 2}
  /\ PhasesEntered(4) = <<"READ_LOCAL_STORAGE", "WAIT_REMOTE_READ", "EXECUTE", "COMMIT", "FINISH">>
  /\ early_remote_reads[4] = <<1>>
  /\ txn_reads[4] = {0, 1}

\* The txn declares for key k, which is in storage, another master than the
\* stored one
MasterDiffers(t, k) ==
  storage[k].found /\ At(t).master_metadata[k].master # storage[k].master

\* Equal counters, different masters
Mismatch(t, k) == Declared(t, k) = StorageCounter(k) /\ MasterDiffers(t, k)

\* Equal counters and no different master
Agrees(t, k) == Declared(t, k) = StorageCounter(k) /\ ~MasterDiffers(t, k)

\* The first place of the txn's keys, in their order, at which the txn and
\* the storage do not agree; 0 when they agree on every key
FirstOff(t) ==
  LET keys == At(t).keys
      off == {i \in 1..Len(keys) : ~Agrees(t, keys[i])}
  IN IF off = {} THEN 0 ELSE CHOOSE i \in off : \A j \in off : i <= j

\* VerifyMaster found no txn waiting in the queue of the txn's home region
CheckedAlone(t) ==
  last.verdict = "WAITING" => blocked_queue[LocalLogMachineId(At(t))] = <<t>>

Occurrences(ls, t) ==
  (IF t \in ls.holders THEN 1 ELSE 0)
    + Cardinality({i \in 1..Len(ls.waiter_queue) : ls.waiter_queue[i][1] = t})

AtMostOncePerKey ==
  \A k \in DOMAIN lock_table :
    /\ \A t \in TxnIds : Occurrences(lock_table[k], t) <= 1
    /\ lock_table[k].waiters =
         {lock_table[k].waiter_queue[i][1] : i \in 1..Len(lock_table[k].waiter_queue)}

\* The local keys that are in the read set and in the write set of the txn
ReadAndWritten(txn) ==
  {k \in txn.read_set \cap txn.write_set : KeyIsInLocalPartition(k)}

\* ExtractKeys has the key once, as a WRITE
OnceAsWrite(txn, k) ==
  LET keys == ExtractKeys(txn) IN
  /\ Cardinality({i \in 1..Len(keys) : keys[i][1] = k}) = 1
  /\ \A i \in 1..Len(keys) : keys[i][1] = k => keys[i][2] = "WRITE"

\* An acquisition of such a key files one WRITE request; on a free entry it
\* makes the txn the only holder, in mode WRITE
WriteWhenReadAndWritten ==
  \A txn \in Transactions : \A k \in ReadAndWritten(txn) :
    /\ OnceAsWrite(txn, k)
    /\ ((DoAcquireLocks(txn.id, txn) \/ DoRegisterTxnAndAcquireLocks(txn.id, txn))
          /\ ~IsQueued(Entry(lock_table, k), txn.id)) =>
         /\ req_mode'[k][txn.id] = "WRITE"
         /\ Occurrences(lock_table'[k], txn.id) = 1
         /\ Entry(lock_table, k).mode = "UNLOCKED" =>
              (lock_table'[k].mode = "WRITE" /\ lock_table'[k].holders = {txn.id})

\* C35: in every state reachable through RegisterTxn, AcquireLocks and
\* ReleaseLocks, repeated AcquireLocks of a key under one txn id included, a
\* txn is at most once among the holders and the waiter queue of a key taken
\* together; a key in both the read set and the write set of a txn is
\* requested once, in WRITE mode.
C35_OncePerKeyWriteWins == []AtMostOncePerKey /\ [][WriteWhenReadAndWritten]_vars

\* Locks on A were requested twice under txn id 200, which waits for A once,
\* behind the holder 100.
C35_Witness ==
  /\ hist[200].twice /\ hist[200].req = {"A"}
  /\ "A" \in DOMAIN lock_table
  /\ lock_table["A"].holders = {100}
  /\ Len(lock_table["A"].waiter_queue) = 1
  /\ lock_table["A"].waiter_queue[1][1] = 200
  /\ req_mode["A"][200] = "WRITE"

(***************************************************************************)
(* Error outcomes of AsyncLog                                              *)
(***************************************************************************)
LogUntouched == log_' = log_ /\ next_' = next_ /\ log_out' = log_out

\* What a call of Insert(position, item) does, by the place of position
InsertOutcome(position) ==
  LET item == log_inserts'[Len(log_inserts')][2] IN
  IF position < next_
    THEN log_last' = "Insert returned" /\ LogUntouched
  ELSE IF position \in DOMAIN log_
    THEN log_last' = "Insert threw" /\ LogUntouched
  ELSE /\ log_last' = "Insert returned"
       /\ next_' = next_
       /\ DOMAIN log_' = (DOMAIN log_) \cup {position}
       /\ log_'[position] = item
       /\ \A p \in DOMAIN log_ : log_'[p] = log_[p]

\* The log holds no position below the cursor, and an Insert of the very item
\* a position holds throws too and leaves the log as it is
TakenPositionsRefuse ==
  \A p \in DOMAIN log_ :
    /\ p >= next_
    /\ LET r == Insert([log |-> log_, next |-> next_], p, log_[p])
       IN r.threw /\ r.log = log_ /\ r.next = next_

\* C36: Insert at a position below the cursor is ignored and changes
\* nothing; Insert at a position at or above the cursor that holds an
\* unconsumed item raises an error, even for an equal item, and leaves the
\* stored item and the cursor unchanged; Next() when HasNext() is false
\* raises an error and leaves the cursor unchanged.
C36_ErrorOutcomes ==
  /\ []TakenPositionsRefuse
  /\ [][/\ \A position \in LogPositions : AsyncLogInsert(position) => InsertOutcome(position)
        /\ AsyncLogNextThrows => (log_last' = "Next threw" /\ LogUntouched)
        /\ AsyncLogNext => log_last' = "Next returned"]_vars

\* On a log that starts from 1: Insert(0) was ignored, Insert(2) stored its
\* item, a second Insert(2) threw and left the first item, and Next threw
\* with the cursor still at 1.
C36_Witness ==
  /\ start_from = 1 /\ next_ = 1
  /\ log_inserts = << <<0, 10>>, <<2, 22>>, <<2, 32>> >>
  /\ DOMAIN log_ = {2} /\ log_[2] = 22
  /\ log_out = <<>>
  /\ log_last = "Next threw"

(***************************************************************************)
(* The heads of the remaster queues                                        *)
(***************************************************************************)
\* What CheckCounters says of the head of queue id on the storage of now
HeadVerdict(id) == CheckCounters(storage, At(Head(blocked_queue[id])))

\* The head of queue id has a key whose remaster is in storage while
\* RemasterOccured has not yet been called for it
HeadAwaitsNotice(id) ==
  KeysInPartition(At(Head(blocked_queue[id]))) \cap notify # {}

\* C37: after each completed VerifyMaster, RemasterOccured or
\* ReleaseTransaction call, with every remaster in storage followed by its
\* RemasterOccured call, the head of every non-empty queue evaluates to
\* WAITING against the current storage; no head is VALID or ABORT while it is
\* still queued. (Between a remaster and its RemasterOccured call only a head
\* that has the remastered key may evaluate otherwise.)
C37_QueueHeadsAreWaiting ==
  ~fatal =>
    \A id \in Masters :
      blocked_queue[id] # <<>> =>
        (HeadVerdict(id) = "WAITING" \/ HeadAwaitsNotice(id))

\* RemasterOccured(A) took txn 10 (A:2) from the head of queue 0 and went on
\* to txn 15 behind it, which it returned to abort (B:0 is behind storage);
\* it stopped at txn 18 (A:3), which is the head now and evaluates to WAITING.
C37_Witness ==
  /\ last.call = "RemasterOccured" /\ last.key = "A" /\ ~fatal
  /\ notify = {}
  /\ last.unblocked = <<10>> /\ last.should_abort = <<15>>
  /\ blocked_queue[0] = <<18>>
  /\ HeadVerdict(0) = "WAITING"

(***************************************************************************)
(* Properties of the lock manager under atomic acquisition                 *)
(***************************************************************************)
\* Positions of txn t in the waiter queue of entry ls
QueuePlaces(ls, t) == {i \in 1..Len(ls.waiter_queue) : ls.waiter_queue[i][1] = t}

\* t waits on a key that u holds, or on which u waits ahead of t
WaitsFor(t, u) ==
  \E k \in DOMAIN lock_table :
    LET ls == lock_table[k] IN
    /\ t \in ls.waiters
    /\ \/ u \in ls.holders
       \/ \E i \in QueuePlaces(ls, u) : \E j \in QueuePlaces(ls, t) : i < j

RECURSIVE WaitsForClosure(_)
WaitsForClosure(S) ==
  LET N == S \cup {u \in TxnIds : \E t \in S : WaitsFor(t, u)}
  IN IF N = S THEN S ELSE WaitsForClosure(N)

OnWaitCycle(t) == \E u \in TxnIds : WaitsFor(t, u) /\ t \in WaitsForClosure({u})

NoWaitCycle == \A t \in TxnIds : ~OnWaitCycle(t)

WaitingTxns == {t \in TxnIds : \E k \in DOMAIN lock_table : t \in lock_table[k].waiters}

\* C38: when every txn asks for all its local keys in one
\* RegisterTxnAndAcquireLocks call and every txn reported ready is in the end
\* passed to ReleaseLocks, every submitted txn with a local key is in the end
\* reported ready, by its own call or in the result of a ReleaseLocks call,
\* and the wait-for relation between the txns never has a cycle.
C38_NoLockDeadlock ==
  /\ []NoWaitCycle
  /\ \A t \in TxnIds : (Submitted(t) /\ hist[t].keys # {}) ~> ReportedReady(t)

\* Txn 100 held A; the writer 200 and the reader 300 of A came after it and
\* waited; ReleaseLocks(100) reported both ready, and they hold A now.
C38_Witness ==
  /\ num_calls = 3
  /\ hist[100] = NoHist
  /\ "A" \in DOMAIN lock_table
  /\ lock_table["A"].holders = {200, 300}
  /\ req_mode["A"][200] = "WRITE" /\ req_mode["A"][300] = "READ"
  /\ ReportedReady(200) /\ ReportedReady(300)
  /\ WaitingTxns = {}

\* Txn 300 waits for 200 on A, and 200 waits for 100 on B
C38_WitnessWaiting ==
  /\ WaitsFor(300, 200) /\ WaitsFor(200, 100)
  /\ ReportedReady(100) /\ ~ReportedReady(200) /\ ~ReportedReady(300)

(***************************************************************************)
(* Properties of num_locks_waited                                          *)
(***************************************************************************)
Waiters(k) == Entry(lock_table, k).waiters

\* Since its last release t was registered once and has asked for each of the
\* keys it was registered with once
RegisteredAndAllRequested(t) ==
  /\ OneRegisterOneRequestPerKey(hist, t)
  /\ hist[t].reg = 1
  /\ hist[t].req = hist[t].keys

\* The local keys of t on which it is a waiter and not a holder
StillWaitedFor(t) == {k \in hist[t].keys : t \in Waiters(k) /\ t \notin Holders(k)}

CountIsKeysWaitedFor ==
  \A t \in TxnIds :
    RegisteredAndAllRequested(t) =>
      /\ num_locks_waited[t] = Cardinality(StillWaitedFor(t))
      /\ t \notin num_locks_waited_ids <=> StillWaitedFor(t) = {}

ReleaseLocksForgets ==
  \A txn \in Transactions :
    DoReleaseLocks(txn.id, txn) =>
      /\ \A k \in KeySet(ExtractKeys(txn)) :
           /\ txn.id \notin Entry(lock_table', k).holders
           /\ txn.id \notin Entry(lock_table', k).waiters
           /\ \A i \in 1..Len(Entry(lock_table', k).waiter_queue) :
                Entry(lock_table', k).waiter_queue[i][1] # txn.id
      /\ txn.id \notin num_locks_waited_ids'
      /\ num_locks_waited'[txn.id] = 0

\* C39: for every txn that has been registered, has requested all its local
\* keys and has not been released, num_locks_waited[txn] is the number of its
\* local keys on which it is still a waiter and not a holder; the entry is
\* absent exactly when that number is 0; and after ReleaseLocks(txn) the txn
\* is neither holder nor waiter of any of the keys of txn and has no
\* num_locks_waited entry.
C39_LockCountConsistent ==
  /\ []CountIsKeysWaitedFor
  /\ [][ReleaseLocksForgets]_vars

\* Txn 200 asked for A and B behind txn 100, which held both, and was given
\* B when 100 was released; it still waits for A, which 300 holds: its count
\* is 1 and it is the only txn with an entry.
C39_Witness ==
  /\ hist[100] = NoHist
  /\ RegisteredAndAllRequested(200) /\ hist[200].keys = {"A", "B"}
  /\ Holders("B") = {200}
  /\ Holders("A") = {300} /\ QueueIds("A") = <<200>>
  /\ num_locks_waited[200] = 1
  /\ num_locks_waited_ids = {200}
  /\ num_calls = 4

(***************************************************************************)
(* Properties of the accounting of a TxnHolder                             *)
(***************************************************************************)
\* On a holder on which Release was not called, num_lo_txns is the number of
\* occupied slots, which are those of the homes handed to it, and is at most
\* the number of replicas
CountIsOccupiedSlots ==
  \A p \in Partitions : \A id \in DOMAIN txn_holders[p] :
    LET h == txn_holders[p][id] IN
    ~holder_hist[p][id].released =>
      /\ h.num_lo_txns = Cardinality(h.lo_txns)
      /\ h.lo_txns = holder_hist[p][id].homes
      /\ h.num_lo_txns <= Cardinality(Replicas)

\* AddLockOnlyTxn for a home whose slot is occupied returns false and leaves
\* the holder as it is
OccupiedSlotRefused ==
  \A p \in Partitions : \A id \in DOMAIN txn_holders[p] :
    \A home \in txn_holders[p][id].lo_txns :
      AddLockOnlyTxn(txn_holders[p][id], home) = [holder |-> txn_holders[p][id], ret |-> FALSE]

\* is_ready_for_gc is true exactly of a done holder with as many transactions
\* as it expects, and of such a holder a transaction of every region in
\* involved_replicas has arrived
ReadyWhenDoneAndComplete ==
  \A p \in Partitions : \A id \in DOMAIN txn_holders[p] :
    LET h == txn_holders[p][id] IN
    /\ is_ready_for_gc(h) <=> (h.done /\ h.num_lo_txns = h.expected_num_lo_txns)
    /\ is_ready_for_gc(h) => InvolvedReplicas(id) \subseteq holder_hist[p][id].homes

HolderAccountingUntilRelease ==
  CountIsOccupiedSlots /\ OccupiedSlotRefused /\ ReadyWhenDoneAndComplete

\* A holder is collected only when a transaction of every region in
\* involved_replicas has been handed to it
CollectedWhenAllArrived ==
  \A p \in Partitions : \A id \in {MultiHomeTxn7.id, MultiHomeTxn9.id} :
    HolderCollect(p, id) => InvolvedReplicas(id) \subseteq holder_hist[p][id].homes

\* C40: until Release is called, num_lo_txns equals the number of occupied
\* per-region slots and never exceeds the number of replicas; AddLockOnlyTxn
\* for a home region whose slot is already occupied returns false and changes
\* neither the slot nor num_lo_txns; is_ready_for_gc is true exactly when the
\* holder is marked done and num_lo_txns equals expected_num_lo_txns, so a
\* holder is never collected while an expected lock-only sub-txn has not
\* arrived.
C40_HolderAccounting ==
  /\ []HolderAccountingUntilRelease
  /\ [][CollectedWhenAllArrived]_vars

\* At some partition the transaction of region 1 of txn 7 came first and
\* again, and was refused the second time; then that of region 0 came, the
\* txn was dispatched and finished, and its holder has been collected.
C40_Witness ==
  \E p \in Partitions :
    /\ join_arrived[p] =
         <<<<MultiHomeTxn7.id, 1>>, <<MultiHomeTxn7.id, 1>>, <<MultiHomeTxn7.id, 0>>>>
    /\ applied[p][MultiHomeTxn7.id] = 1
    /\ MultiHomeTxn7.id \notin DOMAIN txn_holders[p]
====
